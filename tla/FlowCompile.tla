---------------------------- MODULE FlowCompile ----------------------------
(***************************************************************************)
(* Validate and Compile of a flow (v2/flow/validate.go, v2/flow/engine.go;  *)
(* flow/ has the same code without mappings): the static checks, the depth  *)
(* first search for a cycle, and Kahn's layering.  What comes out is what   *)
(* FlowGraph assumes of a compiled flow.                                   *)
(*                                                                         *)
(* Nodes are 1..N in the order of f.Nodes, so an id is neither empty nor    *)
(* there twice; Unknown are ids that are not among them and NoNode the      *)
(* empty one of a mapping that reads a flow input.                         *)
(***************************************************************************)
EXTENDS Naturals, Sequences, SequencesExt, FiniteSets

CONSTANTS
  N,           \* nodes of the flow
  Unknown,     \* ids that edges and mappings name and no node has
  EdgeShapes,  \* the edges a flow may have: src, dst, ports
  MapShapes,   \* the mappings: src, dst, sound (no empty port, path, ...)
  MaxEdges, MaxMaps,   \* bounds: how many
  Capable      \* interrupt-capable nodes

Nodes == 1..N
NoNode == 0
Ids == Nodes \cup Unknown

ASSUME CompileAssumption ==
  /\ N \in Nat \ {0} /\ MaxEdges \in Nat /\ MaxMaps \in Nat
  /\ Unknown \subseteq Nat \ (Nodes \cup {NoNode})
  /\ Capable \subseteq Nodes
  /\ \A e \in EdgeShapes : {e.src, e.dst} \subseteq Ids
  /\ \A m \in MapShapes : m.src \in Ids \cup {NoNode} /\ m.dst \in Ids /\ m.sound \in BOOLEAN

VARIABLES
  edges, maps, hasStore,  \* the flow, and whether a CheckpointStore is configured
  pc,
  color,     \* findCycle: white, gray or black
  stack,     \* its calls of visit: the node, and the targets still to look at
  cycle,     \* what it returns
  layers,    \* Kahn: the layers so far, the last one being worked on
  indeg,     \* wires into a node not yet counted down
  visited,   \* nodes looked at
  todo,      \* nodes of the last layer still to be looked at
  work,      \* wires of the node looked at still to be counted down
  next       \* the layer to come

flowVars == <<edges, maps, hasStore>>
dfsVars == <<color, stack, cycle>>
kahnVars == <<layers, indeg, visited, todo, work, next>>
vars == <<flowVars, pc, dfsVars, kahnVars>>

(***************************************************************************)
(* The flow as a graph.                                                    *)
(***************************************************************************)
(* Fault: mappings are left out of the graph.                              *)
EdgesOnly == edges
Wires == edges \o maps
(* A mapping from a flow input is none.                                    *)
WireIds == {i \in 1..Len(Wires) : Wires[i].src # NoNode}

(* out[u]: the edges and then the mappings from u, in this order.          *)
Out(u) == {i \in WireIds : Wires[i].src = u}
(* Fault: parallel wires between two nodes count once.                     *)
Feeders(v) == Cardinality({Wires[i].src : i \in {j \in WireIds : Wires[j].dst = v}})
InDegree(v) == Cardinality({i \in WireIds : Wires[i].dst = v})

Init ==
  /\ edges \in SeqOf(EdgeShapes, MaxEdges) /\ maps \in SeqOf(MapShapes, MaxMaps)
  /\ hasStore \in BOOLEAN
  /\ pc = "findCycle"
  /\ color = [u \in Ids |-> "white"] /\ stack = << >> /\ cycle = << >>
  /\ layers = << >> /\ indeg = [v \in Ids |-> 0] /\ visited = 0
  /\ todo = << >> /\ work = {} /\ next = << >>

(***************************************************************************)
(* findCycle.                                                              *)
(***************************************************************************)
Top == stack[Len(stack)]
Below == Front(stack)
Call(u) == [node |-> u, rest |-> Out(u)]
(* The calls still open from v's to the top one, closed by v: what the      *)
(* parent links spell out, reversed.                                       *)
CycleFrom(v) ==
  LET at == CHOOSE i \in 1..Len(stack) : stack[i].node = v
  IN [i \in 1..(Len(stack) - at + 1) |-> stack[at + i - 1].node] \o <<v>>

(* Fault: the loop over out[u] does not advance.                           *)
LookAgain(call) == call
Looked(call) == [call EXCEPT !.rest = @ \ {Min(@)}]

Enter(u, below) ==
  /\ color' = [color EXCEPT ![u] = "gray"]
  /\ stack' = Append(below, Call(u))

(* The loop over f.Nodes starts a search from the first white node.        *)
VisitRoot ==
  /\ pc = "findCycle" /\ stack = << >>
  /\ \E n \in Nodes :
       /\ color[n] = "white" /\ \A m \in 1..(n - 1) : color[m] # "white"
       /\ Enter(n, << >>)
  /\ UNCHANGED <<flowVars, pc, cycle, kahnVars>>

VisitTarget ==
  /\ pc = "findCycle" /\ stack # << >> /\ Top.rest # {}
  /\ LET v == Wires[Min(Top.rest)].dst
         below == Append(Below, Looked(Top))
     IN \/ color[v] = "white" /\ Enter(v, below) /\ UNCHANGED <<pc, cycle>>
        \/ color[v] = "gray" /\ cycle' = CycleFrom(v) /\ pc' = "validate" /\ UNCHANGED <<color, stack>>
        \/ color[v] = "black" /\ stack' = below /\ UNCHANGED <<pc, color, cycle>>
  /\ UNCHANGED <<flowVars, kahnVars>>

Leave ==
  /\ pc = "findCycle" /\ stack # << >> /\ Top.rest = {}
  /\ color' = [color EXCEPT ![Top.node] = "black"]
  /\ stack' = Below
  /\ UNCHANGED <<flowVars, pc, cycle, kahnVars>>

NoCycle ==
  /\ pc = "findCycle" /\ stack = << >> /\ \A n \in Nodes : color[n] # "white"
  /\ pc' = "validate"
  /\ UNCHANGED <<flowVars, dfsVars, kahnVars>>

(***************************************************************************)
(* The other checks of Validate, and its answer.                           *)
(***************************************************************************)
EdgeIssue ==
  \/ \E i \in 1..Len(edges) : ~({edges[i].src, edges[i].dst} \subseteq Nodes) \/ edges[i].src = edges[i].dst
  \/ \E i, j \in 1..Len(edges) : i # j /\ edges[i] = edges[j]
MapIssue ==
  \E i \in 1..Len(maps) :
    \/ ~maps[i].sound \/ maps[i].dst \notin Nodes \/ maps[i].src \notin Nodes \cup {NoNode}
    \/ maps[i].src = maps[i].dst

Valid == ~EdgeIssue /\ ~MapIssue /\ cycle = << >>

(* Validate may also object to what is not modelled (an empty type, flow    *)
(* inputs and outputs on unknown nodes); then Compile resolves the nodes    *)
(* and compiles the conditions, either of which may fail.                  *)
Validate ==
  /\ pc = "validate"
  /\ (Valid /\ pc' = "index") \/ pc' = "rejected"
  /\ UNCHANGED <<flowVars, dfsVars, kahnVars>>

(***************************************************************************)
(* Compile: Kahn's algorithm, layer by layer.                              *)
(***************************************************************************)
(* A set of nodes in the order of f.Nodes.                                 *)
InOrder(S) ==
  {q \in [1..Cardinality(S) -> S] : ToSet(q) = S /\ \A i, j \in DOMAIN q : i < j => q[i] < q[j]}

Index ==
  /\ pc = "index"
  /\ indeg' = [v \in Ids |-> InDegree(v)]
  /\ next' \in InOrder({n \in Nodes : InDegree(n) = 0})
  /\ pc' = "kahn"
  /\ UNCHANGED <<flowVars, dfsVars, layers, visited, todo, work>>

(* The queue becomes the next layer; an empty one ends the loop.           *)
BeginLayer ==
  /\ pc = "kahn" /\ work = {} /\ todo = << >>
  /\ \/ /\ next # << >> /\ layers' = Append(layers, next)
        /\ todo' = next /\ next' = << >> /\ UNCHANGED pc
     \/ next = << >> /\ pc' = "counted" /\ UNCHANGED <<layers, todo, next>>
  /\ UNCHANGED <<flowVars, dfsVars, indeg, visited, work>>

VisitNode ==
  /\ pc = "kahn" /\ work = {} /\ todo # << >>
  /\ visited' = visited + 1
  /\ work' = Out(Head(todo)) /\ todo' = Tail(todo)
  /\ UNCHANGED <<flowVars, pc, dfsVars, layers, indeg, next>>

CountDown ==
  /\ pc = "kahn" /\ work # {}
  /\ LET v == Wires[Min(work)].dst IN
     /\ indeg' = [indeg EXCEPT ![v] = @ - 1]
     /\ next' = IF indeg'[v] = 0 THEN Append(next, v) ELSE next
  /\ work' = work \ {Min(work)}
  /\ UNCHANGED <<flowVars, pc, dfsVars, layers, visited, todo>>

AmbiguousInterrupt ==
  \E l \in 1..Len(layers) : Cardinality({i \in 1..Len(layers[l]) : layers[l][i] \in Capable}) > 1

(* The residual-cycle check, the hashes (which may fail) and RV-2.          *)
Finish ==
  /\ pc = "counted"
  /\ pc' \in IF visited # N THEN {"residual"}
             ELSE IF hasStore /\ AmbiguousInterrupt THEN {"rejected"}
             ELSE {"rejected", "compiled"}
  /\ UNCHANGED <<flowVars, dfsVars, kahnVars>>

Next ==
  \/ VisitRoot \/ VisitTarget \/ Leave \/ NoCycle \/ Validate
  \/ Index \/ BeginLayer \/ VisitNode \/ CountDown \/ Finish
Spec == Init /\ [][Next]_vars
FairSpec == Spec /\ WF_vars(Next)

(***************************************************************************)
(* Properties.                                                             *)
(***************************************************************************)
(* The search and the layering stay within the flow's ids: no node is on    *)
(* the search path twice, no in-degree is counted below zero.              *)
TypeOK ==
  /\ pc \in {"findCycle", "validate", "index", "kahn", "counted", "compiled", "rejected", "residual"}
  /\ color \in [Ids -> {"white", "gray", "black"}]
  /\ \A i, j \in 1..Len(stack) : stack[i].node = stack[j].node => i = j
  /\ indeg \in [Ids -> Nat]
  /\ layers \in Seq(Seq(Nodes)) /\ visited \in 0..N
  /\ work \subseteq WireIds /\ todo \in Seq(Nodes) /\ next \in Seq(Nodes)

(* The relation the two algorithms are judged by.                          *)
WireSet ==
  {<<e.src, e.dst>> : e \in ToSet(edges)}
    \cup {<<m.src, m.dst>> : m \in {x \in ToSet(maps) : x.src # NoNode}}
(* A node and ids it leads to, each of which leads back to one of them.    *)
Cyclic ==
  \E S \in SUBSET Ids : S \cap Nodes # {} /\ \A u \in S : \E v \in S : <<u, v>> \in WireSet

(* findCycle reports a cycle exactly if there is one reachable from a node  *)
(* of the flow, through edges or mappings, and what it reports is one.     *)
CycleIsReal ==
  /\ \A i \in 1..(Len(cycle) - 1) : <<cycle[i], cycle[i + 1]>> \in WireSet
  /\ cycle # << >> => Len(cycle) > 1 /\ cycle[1] = cycle[Len(cycle)]
  /\ pc # "findCycle" => (cycle # << >> <=> Cyclic)

LayerAt(n) == CHOOSE l \in 1..Len(layers) : n \in ToSet(layers[l])

(* What the engine relies on: every node is in one layer and there once,    *)
(* every edge and node mapping leads to a later layer, no node waits longer *)
(* than its feeders make it, and with a store no layer can suspend twice;   *)
(* and the residual-cycle error is never returned ("Validate already caught *)
(* cycles", Compile).                                                      *)
CompiledIsLayered ==
  /\ pc # "residual"
  /\ pc = "compiled" =>
      /\ \A n \in Nodes : \E l \in 1..Len(layers) : \E i \in 1..Len(layers[l]) :
           \A k \in 1..Len(layers) : \A j \in 1..Len(layers[k]) :
             layers[k][j] = n <=> k = l /\ j = i
      /\ \A w \in WireSet : LayerAt(w[1]) < LayerAt(w[2])
      /\ \A n \in Nodes : LayerAt(n) > 1 =>
           \E m \in Nodes : <<m, n>> \in WireSet /\ LayerAt(m) + 1 = LayerAt(n)
      /\ hasStore => \A m, n \in Capable : LayerAt(m) = LayerAt(n) => m = n

(* Compile returns, whatever the wires look like.                          *)
CompileReturns == <>(pc \in {"compiled", "rejected", "residual"})
=============================================================================
