------------------------- MODULE FlowCompileProofs --------------------------
(***************************************************************************)
(* Validate and Compile, for flows of any size, with any ids and wires.     *)
(***************************************************************************)
EXTENDS FlowCompile, FiniteSetTheorems, SequenceTheorems, WellFoundedInduction, TLAPS

Leads(u, v) == \E i \in WireIds : Wires[i].src = u /\ Wires[i].dst = v

FlowType == edges \in Seq(EdgeShapes) /\ maps \in Seq(MapShapes) /\ hasStore \in BOOLEAN

(***************************************************************************)
(* The search.  The open calls are a path of gray ids from a node; what a   *)
(* call has looked at is black or the next call; and no set of black ids    *)
(* leads back into itself, as an id turns black after all it leads to.     *)
(***************************************************************************)
CallRecord == [node : Ids, rest : SUBSET WireIds]
SearchType ==
  /\ color \in [Ids -> {"white", "gray", "black"}]
  /\ stack \in Seq(CallRecord) /\ cycle = << >>

Path ==
  /\ stack # << >> => stack[1].node \in Nodes
  /\ \A i, j \in 1..Len(stack) : stack[i].node = stack[j].node => i = j
  /\ \A i \in 1..Len(stack) : stack[i].rest \subseteq Out(stack[i].node)
  /\ \A i \in 1..(Len(stack) - 1) : Leads(stack[i].node, stack[i + 1].node)
Gray == \A u \in Ids : color[u] = "gray" <=> \E i \in 1..Len(stack) : stack[i].node = u
LookedAt ==
  \A i \in 1..Len(stack) : \A w \in Out(stack[i].node) \ stack[i].rest :
    \/ color[Wires[w].dst] = "black"
    \/ i < Len(stack) /\ Wires[w].dst = stack[i + 1].node

Black == {u \in Ids : color[u] = "black"}
BlackClosed == \A u \in Black : \A w \in Out(u) : Wires[w].dst \in Black
Sink(S) == \E u \in S : \A v \in S : ~Leads(u, v)
BlackAcyclic == \A S \in SUBSET Black : S # {} => Sink(S)

Searching == SearchType /\ Path /\ Gray /\ LookedAt /\ BlackClosed /\ BlackAcyclic
SearchInv == FlowType /\ (pc = "findCycle" => Searching) /\ CycleIsReal

(***************************************************************************)
(* The layering.  A wire is counted once its source has been looked at, a   *)
(* node is placed or about to be once all wires into it are counted.       *)
(***************************************************************************)
InLayer(l, n) == \E i \in 1..Len(layers[l]) : layers[l][i] = n
Placed == {n \in Nodes : \E l \in 1..Len(layers) : InLayer(l, n)}
Coming == {n \in Nodes : \E i \in 1..Len(next) : next[i] = n}
Awaiting == {n \in Nodes : \E i \in 1..Len(todo) : todo[i] = n}
Done == Placed \ Awaiting
Uncounted(v) == {i \in WireIds : Wires[i].dst = v /\ (Wires[i].src \notin Done \/ i \in work)}

KahnType ==
  /\ layers \in Seq(Seq(Nodes)) /\ next \in Seq(Nodes) /\ todo \in Seq(Nodes)
  /\ indeg \in [Ids -> Nat] /\ work \subseteq WireIds
  /\ \A i \in WireIds : Wires[i].src \in Nodes /\ Wires[i].dst \in Nodes

Once ==
  /\ \A l, k \in 1..Len(layers) : \A i \in 1..Len(layers[l]), j \in 1..Len(layers[k]) :
       layers[l][i] = layers[k][j] => l = k /\ i = j
  /\ \A i, j \in 1..Len(next) : next[i] = next[j] => i = j
  /\ \A i, j \in 1..Len(todo) : todo[i] = todo[j] => i = j
  /\ Coming \cap Placed = {}
InHand ==
  /\ layers = << >> => todo = << >> /\ work = {}
  /\ layers # << >> => \A n \in Awaiting : InLayer(Len(layers), n)
  /\ \A i \in work : Wires[i].src \in Done /\ InLayer(Len(layers), Wires[i].src)
Counting ==
  /\ visited = Cardinality(Done)
  /\ \A v \in Nodes : indeg[v] = Cardinality(Uncounted(v))
  /\ \A v \in Nodes : Uncounted(v) = {} <=> v \in Placed \cup Coming
Later ==
  \A i \in WireIds : \A l \in 1..Len(layers) :
    InLayer(l, Wires[i].dst) => \E k \in 1..(l - 1) : InLayer(k, Wires[i].src)
Soon ==
  /\ \A l \in 2..Len(layers) : \A n \in Nodes :
       InLayer(l, n) => \E m \in Nodes : InLayer(l - 1, m) /\ Leads(m, n)
  /\ layers # << >> => \A n \in Coming : \E m \in Nodes : InLayer(Len(layers), m) /\ Leads(m, n)

Layering == KahnType /\ Once /\ InHand /\ Counting /\ Later /\ Soon
LayerInv ==
  /\ pc \in {"index", "kahn", "counted", "compiled", "residual"} => Valid
  /\ pc \in {"findCycle", "validate", "index"} =>
       layers = << >> /\ todo = << >> /\ work = {} /\ visited = 0 /\ next = << >>
  /\ pc \in {"kahn", "counted", "compiled"} => Layering
  /\ pc \in {"counted", "compiled"} => Placed = Nodes /\ visited = N
  /\ pc = "compiled" /\ hasStore => ~AmbiguousInterrupt
  /\ pc # "residual"

(***************************************************************************)
(* Facts about the flow as a graph.                                        *)
(***************************************************************************)
LEMMA MinIs ==
  ASSUME NEW S \in SUBSET Nat, S # {}
  PROVE  Min(S) \in S /\ \A y \in S : Min(S) <= y
<1>1. PICK x \in S : \A y \in S : ~(<<y, x>> \in OpToRel(<, Nat))
  BY WFMin, NatLessThanWellFounded, Zenon
<1>2. \A y \in S : x <= y
  <2> SUFFICES ASSUME NEW y \in S, ~(x <= y) PROVE FALSE
    OBVIOUS
  <2>1. y < x /\ y \in Nat /\ x \in Nat
    OBVIOUS
  <2>2. <<y, x>> \in OpToRel(<, Nat)
    BY <2>1, Zenon DEF OpToRel
  <2>3. QED
    BY <1>1, <2>2, Zenon
<1>3. QED
  BY <1>2 DEF Min

LEMMA WiresAre ==
  ASSUME FlowType
  PROVE  /\ Len(edges) \in Nat /\ Len(maps) \in Nat /\ Len(Wires) = Len(edges) + Len(maps)
         /\ \A i \in 1..Len(edges) : Wires[i] = edges[i] /\ edges[i] \in EdgeShapes
         /\ \A i \in 1..Len(maps) : Wires[Len(edges) + i] = maps[i] /\ maps[i] \in MapShapes
<1>1. edges \in Seq(EdgeShapes \cup MapShapes) /\ maps \in Seq(EdgeShapes \cup MapShapes)
  <2>1. edges \in Seq(EdgeShapes) /\ maps \in Seq(MapShapes)
    BY DEF FlowType
  <2>2. QED
    BY <2>1, SeqDef
<1>2. PICK m \in Nat, n \in Nat : m = Len(edges) /\ n = Len(maps)
  BY <1>1, LenProperties
<1>3. /\ Len(edges \o maps) = m + n
      /\ \A i \in 1..(m + n) : (edges \o maps)[i] = IF i <= m THEN edges[i] ELSE maps[i - m]
  BY <1>1, <1>2, ConcatProperties
<1>4. ASSUME NEW i \in 1..m PROVE Wires[i] = edges[i] /\ edges[i] \in EdgeShapes
  <2>1. i \in 1..(m + n) /\ i <= m
    OBVIOUS
  <2>2. Wires[i] = edges[i]
    BY <1>3, <2>1 DEF Wires
  <2>3. edges[i] \in EdgeShapes
    BY <1>2, ElementOfSeq DEF FlowType
  <2>4. QED
    BY <2>2, <2>3
<1>5. ASSUME NEW i \in 1..n PROVE Wires[m + i] = maps[i] /\ maps[i] \in MapShapes
  <2>1. m + i \in 1..(m + n) /\ ~(m + i <= m) /\ (m + i) - m = i
    OBVIOUS
  <2>2. Wires[m + i] = maps[i]
    BY <1>3, <2>1 DEF Wires
  <2>3. maps[i] \in MapShapes
    BY <1>2, ElementOfSeq DEF FlowType
  <2>4. QED
    BY <2>2, <2>3
<1>6. QED
  BY <1>2, <1>3, <1>4, <1>5 DEF Wires

LEMMA Numbers ==
  /\ N \in Nat /\ N >= 1 /\ Nodes \subseteq Nat /\ Nodes \subseteq Ids /\ NoNode \notin Ids
  /\ IsFiniteSet(Nodes) /\ Cardinality(Nodes) = N
<1>1. N \in Nat /\ N >= 1
  BY CompileAssumption
<1>2. IsFiniteSet(Nodes) /\ Cardinality(Nodes) = N
  BY <1>1, FS_Interval DEF Nodes
<1>3. Nodes \subseteq Nat /\ NoNode \notin Nodes
  BY <1>1 DEF Nodes, NoNode
<1>4. NoNode \notin Unknown
  <2>1. Unknown \subseteq Nat \ (Nodes \cup {NoNode})
    BY CompileAssumption, Zenon
  <2>2. QED
    BY <2>1
<1>5. QED
  BY <1>1, <1>2, <1>3, <1>4 DEF Ids

LEMMA WireTypes ==
  ASSUME FlowType
  PROVE  /\ WireIds \subseteq Nat /\ IsFiniteSet(WireIds)
         /\ \A i \in WireIds : Wires[i].src \in Ids /\ Wires[i].dst \in Ids
<1>1. PICK m \in Nat, n \in Nat : m = Len(edges) /\ n = Len(maps) /\ Len(Wires) = m + n
  BY WiresAre
<1>2. WireIds \subseteq 1..(m + n) /\ \A i \in WireIds : Wires[i].src # NoNode
  BY <1>1 DEF WireIds
<1>3. IsFiniteSet(WireIds)
  <2>1. 1 \in Int /\ m + n \in Int
    OBVIOUS
  <2>2. IsFiniteSet(1..(m + n))
    BY <2>1, FS_Interval, Zenon
  <2>3. QED
    BY <1>2, <2>2, FS_Subset, Zenon
<1>4. ASSUME NEW i \in WireIds PROVE Wires[i].src \in Ids /\ Wires[i].dst \in Ids
  <2>1. CASE i \in 1..m
    BY <1>1, <2>1, WiresAre, CompileAssumption
  <2>2. CASE i \notin 1..m
    <3>1. i - m \in 1..n /\ m + (i - m) = i
      BY <1>2, <2>2
    <3>2. Wires[i] = maps[i - m] /\ maps[i - m] \in MapShapes
      BY <1>1, <3>1, WiresAre
    <3>3. QED
      BY <1>2, <3>2, CompileAssumption
  <2>3. QED
    BY <2>1, <2>2
<1>5. QED
  BY <1>2, <1>3, <1>4

(* The wires are the relation the algorithms are judged by.                *)
LEMMA WiresLead == ASSUME FlowType PROVE \A u, v : <<u, v>> \in WireSet <=> Leads(u, v)
<1>1. PICK m \in Nat, n \in Nat : m = Len(edges) /\ n = Len(maps) /\ Len(Wires) = m + n
  BY WiresAre
<1>2. ToSet(edges) = {edges[i] : i \in 1..m} /\ ToSet(maps) = {maps[i] : i \in 1..n}
  BY <1>1, LenProperties DEF ToSet, FlowType
<1>3. ASSUME NEW u, NEW v, <<u, v>> \in WireSet PROVE Leads(u, v)
  <2>1. CASE \E e \in ToSet(edges) : <<u, v>> = <<e.src, e.dst>>
    <3>1. PICK i \in 1..m : u = edges[i].src /\ v = edges[i].dst
      BY <1>2, <2>1
    <3>2. Wires[i] = edges[i] /\ edges[i] \in EdgeShapes /\ i \in 1..(m + n)
      BY <1>1, <3>1, WiresAre
    <3>3. i \in WireIds
      BY <1>1, <3>2, CompileAssumption, Numbers DEF WireIds
    <3>4. QED
      BY <3>1, <3>2, <3>3 DEF Leads
  <2>2. CASE \E e \in ToSet(maps) : e.src # NoNode /\ <<u, v>> = <<e.src, e.dst>>
    <3>1. PICK i \in 1..n : maps[i].src # NoNode /\ u = maps[i].src /\ v = maps[i].dst
      BY <1>2, <2>2
    <3>2. Wires[m + i] = maps[i] /\ m + i \in 1..(m + n)
      BY <1>1, <3>1, WiresAre
    <3>3. m + i \in WireIds
      BY <1>1, <3>1, <3>2 DEF WireIds
    <3>4. QED
      BY <3>1, <3>2, <3>3 DEF Leads
  <2>3. QED
    BY <1>3, <2>1, <2>2 DEF WireSet
<1>4. ASSUME NEW u, NEW v, Leads(u, v) PROVE <<u, v>> \in WireSet
  <2>1. PICK i \in WireIds : Wires[i].src = u /\ Wires[i].dst = v
    BY <1>4 DEF Leads
  <2>2. i \in 1..(m + n) /\ u # NoNode
    BY <1>1, <2>1 DEF WireIds
  <2>3. CASE i \in 1..m
    <3>1. edges[i] \in ToSet(edges) /\ Wires[i] = edges[i]
      BY <1>1, <1>2, <2>3, WiresAre
    <3>2. QED
      BY <2>1, <3>1 DEF WireSet
  <2>4. CASE i \notin 1..m
    <3>1. i - m \in 1..n /\ m + (i - m) = i
      BY <2>2, <2>4
    <3>2. Wires[i] = maps[i - m] /\ maps[i - m] \in ToSet(maps)
      BY <1>1, <1>2, <3>1, WiresAre
    <3>3. QED
      BY <2>1, <2>2, <3>2 DEF WireSet
  <2>5. QED
    BY <2>3, <2>4
<1>5. QED
  BY <1>3, <1>4

LEMMA FlowKept ==
  ASSUME UNCHANGED flowVars
  PROVE  /\ FlowType' = FlowType /\ Wires' = Wires /\ WireIds' = WireIds /\ WireSet' = WireSet
         /\ Cyclic' = Cyclic /\ (\A u : Out(u)' = Out(u)) /\ (\A u, v : Leads(u, v)' = Leads(u, v))
<1>1. edges' = edges /\ maps' = maps /\ hasStore' = hasStore
  BY DEF flowVars
<1>2. Wires' = Wires
  BY <1>1 DEF Wires
<1>3. WireIds' = WireIds
  BY <1>2 DEF WireIds
<1>4. WireSet' = WireSet
  BY <1>1 DEF WireSet
<1>5. QED
  BY <1>1, <1>2, <1>3, <1>4 DEF FlowType, Cyclic, Out, Leads

(***************************************************************************)
(* What each step of the search does to it.                                *)
(***************************************************************************)
LEMMA InitSearches == Init => SearchInv /\ LayerInv
<1> SUFFICES ASSUME Init PROVE SearchInv /\ LayerInv
  OBVIOUS
<1>1. FlowType
  <2>1. edges \in SeqOf(EdgeShapes, MaxEdges) /\ maps \in SeqOf(MapShapes, MaxMaps) /\ hasStore \in BOOLEAN
    BY DEF Init
  <2>2. ASSUME NEW S, NEW n, NEW s \in SeqOf(S, n) PROVE s \in Seq(S)
    <3>1. QED
      BY SeqDef DEF SeqOf
  <2>3. QED
    BY <2>1, <2>2, Zenon DEF FlowType
<1>2. /\ pc = "findCycle" /\ color = [u \in Ids |-> "white"] /\ stack = << >> /\ cycle = << >>
      /\ layers = << >> /\ todo = << >> /\ work = {} /\ visited = 0 /\ next = << >>
  BY DEF Init
<1>3. SearchType /\ Len(stack) = 0 /\ Black = {}
  BY <1>2, EmptySeq DEF SearchType, Black
<1>4. Path /\ Gray /\ LookedAt
  BY <1>2, <1>3 DEF Path, Gray, LookedAt
<1>5. BlackClosed /\ BlackAcyclic
  BY <1>3, Zenon DEF BlackClosed, BlackAcyclic
<1>6. CycleIsReal
  BY <1>2 DEF CycleIsReal
<1>7. LayerInv
  BY <1>2 DEF LayerInv
<1>8. QED
  BY <1>1, <1>3, <1>4, <1>5, <1>6, <1>7 DEF SearchInv, Searching

(* The ids of the search, apart from the flow: they keep their meaning when *)
(* only the open calls and the colours change.                             *)
LEMMA StackIs ==
  ASSUME Searching
  PROVE  /\ stack \in Seq(CallRecord) /\ Len(stack) \in Nat
         /\ \A i \in 1..Len(stack) : stack[i] \in CallRecord /\ stack[i].node \in Ids /\ stack[i].rest \in SUBSET WireIds
         /\ stack # << >> <=> Len(stack) > 0
<1>1. stack \in Seq(CallRecord)
  BY DEF Searching, SearchType
<1>2. PICK n \in Nat : n = Len(stack)
  BY <1>1, LenProperties
<1>3. \A i \in 1..n : stack[i] \in CallRecord
  BY <1>1, <1>2, ElementOfSeq
<1>4. stack # << >> <=> n > 0
  BY <1>1, <1>2, EmptySeq
<1>5. QED
  BY <1>1, <1>2, <1>3, <1>4 DEF CallRecord

(* Entering u on top of the calls s: a node at the start, or an id the call *)
(* below leads to.                                                         *)
LEMMA EnterKeeps ==
  ASSUME FlowType, UNCHANGED flowVars, Searching, cycle' = cycle, NEW u \in Ids, NEW s, NEW k \in Nat,
         color[u] = "white", Enter(u, s),
         s \in Seq(CallRecord), Len(s) = k, Len(stack) = k,
         \A i \in 1..k : s[i].node = stack[i].node,
         \A i \in 1..(k - 1) : s[i].rest = stack[i].rest,
         k = 0 => u \in Nodes,
         k > 0 => \E w \in stack[k].rest : s[k].rest = stack[k].rest \ {w} /\ Wires[w].dst = u
  PROVE  Searching'
<1>1. color' = [color EXCEPT ![u] = "gray"] /\ stack' = Append(s, [node |-> u, rest |-> Out(u)])
  BY DEF Enter, Call
<1>2. /\ color \in [Ids -> {"white", "gray", "black"}] /\ cycle = << >>
  BY DEF Searching, SearchType
<1>3. Out(u) \in SUBSET WireIds
  BY DEF Out
<1>4. [node |-> u, rest |-> Out(u)] \in CallRecord
  BY <1>3 DEF CallRecord
<1>5. /\ stack' \in Seq(CallRecord) /\ Len(stack') = k + 1
      /\ \A i \in 1..k : stack'[i] = s[i]
      /\ stack'[k + 1] = [node |-> u, rest |-> Out(u)]
  BY <1>1, <1>4, AppendProperties
<1>6. CallRecord' = CallRecord /\ Wires' = Wires /\ WireIds' = WireIds
      /\ (\A x : Out(x)' = Out(x)) /\ (\A x, y : Leads(x, y)' = Leads(x, y))
  BY FlowKept DEF CallRecord
<1>7. SearchType'
  <2>1. color' \in [Ids -> {"white", "gray", "black"}] /\ cycle' = << >>
    BY <1>1, <1>2
  <2>2. QED
    BY <1>5, <1>6, <2>1 DEF SearchType
<1>8. \A i \in 1..k : stack[i].node # u
  BY StackIs DEF Searching, Gray
<1>9. Path'
  <2>1. \A i \in 1..k : stack'[i].node = stack[i].node /\ i \in 1..(k + 1)
    BY <1>5
  <2>2. stack'[k + 1].node = u /\ stack'[k + 1].rest = Out(u)
    BY <1>5
  <2>3. stack'[1].node \in Nodes
    <3>1. CASE k = 0
      BY <2>2, <3>1
    <3>2. CASE k > 0
      <4>1. 1 \in 1..k /\ stack # << >>
        BY <3>2, StackIs
      <4>2. QED
        BY <2>1, <4>1 DEF Searching, Path
    <3>3. QED
      BY <3>1, <3>2
  <2>4. ASSUME NEW i \in 1..(k + 1), NEW j \in 1..(k + 1), stack'[i].node = stack'[j].node PROVE i = j
    <3>1. CASE i \in 1..k /\ j \in 1..k
      BY <2>1, <2>4, <3>1 DEF Searching, Path
    <3>2. CASE i = k + 1 \/ j = k + 1
      <4>1. (i \in 1..k \/ i = k + 1) /\ (j \in 1..k \/ j = k + 1)
        OBVIOUS
      <4>2. QED
        BY <1>8, <2>1, <2>2, <2>4, <3>2, <4>1
    <3>3. QED
      BY <3>1, <3>2
  <2>5. ASSUME NEW i \in 1..(k + 1) PROVE stack'[i].rest \subseteq Out(stack'[i].node)
    <3>1. CASE i = k + 1
      BY <2>2, <3>1
    <3>2. CASE i \in 1..k
      <4>1. s[i].rest \subseteq stack[i].rest
        <5>1. CASE i \in 1..(k - 1)
          BY <5>1
        <5>2. CASE i = k /\ k > 0
          BY <5>2
        <5>3. QED
          BY <3>2, <5>1, <5>2
      <4>2. stack[i].rest \subseteq Out(stack[i].node)
        BY <3>2 DEF Searching, Path
      <4>3. QED
        BY <1>5, <2>1, <3>2, <4>1, <4>2
    <3>3. QED
      BY <3>1, <3>2
  <2>6. ASSUME NEW i \in 1..k PROVE Leads(stack'[i].node, stack'[i + 1].node)
    <3>1. CASE i < k
      <4>1. i \in 1..(k - 1) /\ i + 1 \in 1..k
        BY <3>1
      <4>2. Leads(stack[i].node, stack[i + 1].node)
        BY <4>1 DEF Searching, Path
      <4>3. QED
        BY <2>1, <4>1, <4>2
    <3>2. CASE i = k
      <4>1. PICK w \in stack[k].rest : Wires[w].dst = u
        BY <3>2
      <4>2. w \in WireIds /\ Wires[w].src = stack[k].node
        BY <3>2, <4>1 DEF Searching, Path, Out
      <4>3. QED
        BY <2>1, <2>2, <3>2, <4>1, <4>2 DEF Leads
    <3>3. QED
      BY <3>1, <3>2
  <2>7. (k + 1) - 1 = k
    OBVIOUS
  <2>8. QED
    BY <1>5, <1>6, <2>3, <2>4, <2>5, <2>6, <2>7 DEF Path
<1>10. Gray'
  <2> SUFFICES ASSUME NEW x \in Ids
               PROVE  color'[x] = "gray" <=> \E i \in 1..(k + 1) : stack'[i].node = x
    BY <1>5 DEF Gray
  <2>1. CASE x = u
    <3>1. color'[x] = "gray" /\ k + 1 \in 1..(k + 1)
      BY <1>1, <1>2, <2>1
    <3>2. QED
      BY <1>5, <2>1, <3>1
  <2>2. CASE x # u
    <3>1. color'[x] = color[x]
      BY <1>1, <1>2, <2>2
    <3>2. color[x] = "gray" <=> \E i \in 1..k : stack[i].node = x
      BY DEF Searching, Gray
    <3>3. \A i \in 1..(k + 1) : i \in 1..k \/ i = k + 1
      OBVIOUS
    <3>4. QED
      BY <1>5, <2>2, <3>1, <3>2, <3>3
  <2>3. QED
    BY <2>1, <2>2
<1>11. Black' = Black
  BY <1>1, <1>2 DEF Black
<1>12. LookedAt'
  <2> SUFFICES ASSUME NEW i \in 1..(k + 1), NEW w \in Out(stack'[i].node), w \notin stack'[i].rest
               PROVE  \/ color'[Wires[w].dst] = "black"
                      \/ i < k + 1 /\ Wires[w].dst = stack'[i + 1].node
    BY <1>5, <1>6 DEF LookedAt
  <2>1. i \in 1..k
    <3>1. CASE i = k + 1
      BY <1>5, <3>1
    <3>2. QED
      BY <3>1
  <2>2. w \in Out(stack[i].node) /\ i < k + 1 /\ w \notin s[i].rest
    BY <1>5, <2>1
  <2>3. CASE w \in stack[i].rest
    <3>1. i = k
      BY <2>1, <2>2, <2>3
    <3>2. Wires[w].dst = u
      BY <2>1, <2>2, <2>3, <3>1
    <3>3. QED
      BY <1>5, <2>2, <3>1, <3>2
  <2>4. CASE w \notin stack[i].rest
    <3>1. color[Wires[w].dst] = "black" \/ (i < k /\ Wires[w].dst = stack[i + 1].node)
      BY <2>1, <2>2, <2>4 DEF Searching, LookedAt
    <3>2. Wires[w].dst \in Ids
      BY <2>2, WireTypes DEF Out
    <3>3. CASE color[Wires[w].dst] = "black"
      BY <1>1, <1>2, <3>2, <3>3
    <3>4. CASE i < k /\ Wires[w].dst = stack[i + 1].node
      <4>1. i + 1 \in 1..k
        BY <2>1, <3>4
      <4>2. QED
        BY <1>5, <2>2, <3>4, <4>1
    <3>5. QED
      BY <3>1, <3>3, <3>4
  <2>5. QED
    BY <2>3, <2>4
<1>13. BlackClosed' /\ BlackAcyclic'
  BY <1>6, <1>11 DEF BlackClosed, BlackAcyclic, Sink, Searching
<1>14. QED
  BY <1>7, <1>9, <1>10, <1>12, <1>13 DEF Searching

LEMMA CycleKept ==
  ASSUME SearchInv, UNCHANGED flowVars, cycle' = cycle, pc' # "findCycle" => pc # "findCycle"
  PROVE  FlowType' /\ CycleIsReal'
<1>1. FlowType' /\ WireSet' = WireSet /\ Cyclic' = Cyclic
  BY FlowKept DEF SearchInv
<1>2. CycleIsReal
  BY DEF SearchInv
<1>3. QED
  BY <1>1, <1>2 DEF CycleIsReal

LEMMA VisitRootKeeps == ASSUME SearchInv, VisitRoot PROVE SearchInv'
<1>1. /\ pc = "findCycle" /\ stack = << >> /\ UNCHANGED flowVars /\ pc' = pc /\ cycle' = cycle
  BY DEF VisitRoot
<1>2. PICK n \in Nodes : color[n] = "white" /\ Enter(n, << >>)
  BY DEF VisitRoot
<1>3. FlowType' /\ CycleIsReal'
  BY <1>1, CycleKept
<1>4. FlowType /\ Searching /\ n \in Ids
  BY <1>1, Numbers DEF SearchInv
<1>5. << >> \in Seq(CallRecord) /\ Len(<< >>) = 0 /\ Len(stack) = 0
  BY <1>1, EmptySeq
<1>6. PICK k, s : k \in Nat /\ k = 0 /\ s = << >>
  OBVIOUS
<1>7. /\ s \in Seq(CallRecord) /\ Len(s) = k /\ Len(stack) = k /\ Enter(n, s)
      /\ \A i \in 1..k : s[i].node = stack[i].node
      /\ \A i \in 1..(k - 1) : s[i].rest = stack[i].rest
      /\ k = 0 => n \in Nodes
      /\ ~(k > 0)
  BY <1>2, <1>5, <1>6
<1>8. k > 0 => \E w \in stack[k].rest : s[k].rest = stack[k].rest \ {w} /\ Wires[w].dst = n
  BY <1>7
<1>9. Searching'
  BY <1>1, <1>2, <1>4, <1>7, <1>8, EnterKeeps, Zenon
<1>10. QED
  BY <1>1, <1>3, <1>9 DEF SearchInv

(* The top call after it has looked at its next wire.                      *)
LEMMA LookedIs ==
  ASSUME FlowType, Searching, stack # << >>
  PROVE  \E k \in Nat \ {0} :
           /\ Len(stack) = k /\ Top = stack[k] /\ Top \in CallRecord
           /\ Below \in Seq(CallRecord) /\ Len(Below) = k - 1
           /\ \A i \in 1..(k - 1) : Below[i] = stack[i]
           /\ Top.rest # {} =>
                /\ Min(Top.rest) \in Top.rest
                /\ Append(Below, Looked(Top)) \in Seq(CallRecord)
                /\ Len(Append(Below, Looked(Top))) = k
                /\ \A i \in 1..(k - 1) : Append(Below, Looked(Top))[i] = stack[i]
                /\ Append(Below, Looked(Top))[k]
                     = [node |-> stack[k].node, rest |-> stack[k].rest \ {Min(Top.rest)}]
<1>1. PICK k \in Nat \ {0} : Len(stack) = k /\ stack \in Seq(CallRecord)
  BY StackIs
<1>2. Top = stack[k] /\ Top \in CallRecord
  <2>1. k \in 1..k
    OBVIOUS
  <2>2. QED
    BY <1>1, <2>1, StackIs DEF Top
<1>3. PICK j \in Nat : j = k - 1
  OBVIOUS
<1>4. \A i \in 1..j : stack[i] \in CallRecord
  BY <1>1, <1>3, StackIs
<1>5. /\ SubSeq(stack, 1, j) \in Seq(CallRecord)
      /\ Len(SubSeq(stack, 1, j)) = IF 1 <= j THEN j - 1 + 1 ELSE 0
      /\ \A i \in 1..(j - 1 + 1) : SubSeq(stack, 1, j)[i] = stack[1 + i - 1]
  BY <1>4, SubSeqProperties
<1>6. Below \in Seq(CallRecord) /\ Len(Below) = j /\ \A i \in 1..j : Below[i] = stack[i]
  <2>1. Below = SubSeq(stack, 1, j)
    BY <1>1, <1>3 DEF Below, Front
  <2>2. j - 1 + 1 = j /\ \A i \in 1..j : 1 + i - 1 = i
    OBVIOUS
  <2>3. QED
    BY <1>5, <2>1, <2>2
<1>7. ASSUME Top.rest # {}
      PROVE  /\ Min(Top.rest) \in Top.rest
             /\ Append(Below, Looked(Top)) \in Seq(CallRecord)
             /\ Len(Append(Below, Looked(Top))) = j + 1
             /\ \A i \in 1..j : Append(Below, Looked(Top))[i] = stack[i]
             /\ Append(Below, Looked(Top))[j + 1]
                  = [node |-> stack[k].node, rest |-> stack[k].rest \ {Min(Top.rest)}]
  <2>1. stack[k].rest \in SUBSET WireIds /\ stack[k].node \in Ids /\ WireIds \subseteq Nat
    BY <1>2, WireTypes DEF CallRecord
  <2>2. Min(Top.rest) \in Top.rest
    BY <1>2, <1>7, <2>1, MinIs
  <2>3. PICK m : m = Min(Top.rest)
    OBVIOUS
  <2>4. Looked(Top) = [node |-> stack[k].node, rest |-> stack[k].rest \ {m}]
    <3>1. PICK c \in CallRecord : c = Top /\ c = stack[k] /\ m = Min(c.rest)
      BY <1>2, <2>3
    <3>2. Looked(c) = [c EXCEPT !.rest = c.rest \ {m}]
      BY <3>1 DEF Looked
    <3>3. QED
      BY <3>1, <3>2 DEF CallRecord
  <2>5. Looked(Top) \in CallRecord
    BY <2>1, <2>4 DEF CallRecord
  <2>6. QED
    BY <1>6, <2>2, <2>3, <2>4, <2>5, AppendProperties
<1>8. j + 1 = k
  BY <1>3
<1>9. QED
  BY <1>1, <1>2, <1>3, <1>6, <1>7, <1>8

LEMMA BlackTargetKeeps ==
  ASSUME SearchInv, pc = "findCycle", stack # << >>, Top.rest # {},
         color[Wires[Min(Top.rest)].dst] = "black",
         stack' = Append(Below, Looked(Top)), UNCHANGED <<flowVars, pc, color, cycle>>
  PROVE  SearchInv'
<1>1. FlowType' /\ CycleIsReal'
  BY CycleKept
<1>2. FlowType /\ Searching
  BY DEF SearchInv
<1>3. PICK k \in Nat \ {0} :
        /\ Len(stack) = k /\ Top = stack[k]
        /\ Min(Top.rest) \in Top.rest
        /\ stack' \in Seq(CallRecord) /\ Len(stack') = k
        /\ \A i \in 1..(k - 1) : stack'[i] = stack[i]
        /\ stack'[k] = [node |-> stack[k].node, rest |-> stack[k].rest \ {Min(Top.rest)}]
  BY <1>2, LookedIs
<1>4. PICK m : m = Min(Top.rest) /\ m \in stack[k].rest /\ color[Wires[m].dst] = "black"
  BY <1>3
<1>5. /\ \A i \in 1..k : stack'[i].node = stack[i].node /\ stack'[i].rest \subseteq stack[i].rest
      /\ \A i \in 1..k : \A w \in stack[i].rest : w \in stack'[i].rest \/ (i = k /\ w = m)
  <2>1. \A i \in 1..k : i \in 1..(k - 1) \/ i = k
    OBVIOUS
  <2>2. QED
    BY <1>3, <1>4, <2>1
<1>6. CallRecord' = CallRecord /\ Wires' = Wires /\ WireIds' = WireIds
      /\ (\A x : Out(x)' = Out(x)) /\ (\A x, y : Leads(x, y)' = Leads(x, y))
  BY FlowKept DEF CallRecord
<1>7. SearchType'
  BY <1>2, <1>3, <1>6 DEF Searching, SearchType
<1>8. Path'
  <2>1. \A i \in 1..(k - 1) : i \in 1..k /\ i + 1 \in 1..k
    OBVIOUS
  <2>2. 1 \in 1..k
    OBVIOUS
  <2>3. QED
    BY <1>2, <1>3, <1>5, <1>6, <2>1, <2>2 DEF Searching, Path
<1>9. Gray'
  BY <1>2, <1>3, <1>5 DEF Searching, Gray
<1>10. LookedAt'
  <2> SUFFICES ASSUME NEW i \in 1..k, NEW w \in Out(stack[i].node), w \notin stack'[i].rest
               PROVE  \/ color[Wires[w].dst] = "black"
                      \/ i < k /\ Wires[w].dst = stack'[i + 1].node
    BY <1>3, <1>5, <1>6 DEF LookedAt
  <2>1. CASE w \in stack[i].rest
    BY <1>4, <1>5, <2>1
  <2>2. CASE w \notin stack[i].rest
    <3>1. color[Wires[w].dst] = "black" \/ (i < k /\ Wires[w].dst = stack[i + 1].node)
      BY <1>2, <1>3, <2>2 DEF Searching, LookedAt
    <3>2. i < k => i + 1 \in 1..k
      OBVIOUS
    <3>3. QED
      BY <1>5, <3>1, <3>2
  <2>3. QED
    BY <2>1, <2>2
<1>11. BlackClosed' /\ BlackAcyclic'
  <2>1. Black' = Black
    BY DEF Black
  <2>2. QED
    BY <1>2, <1>6, <2>1 DEF BlackClosed, BlackAcyclic, Sink, Searching
<1>12. QED
  BY <1>1, <1>7, <1>8, <1>9, <1>10, <1>11 DEF SearchInv, Searching

(* A gray target: the calls open since it spell out a cycle.               *)
LEMMA GrayTargetKeeps ==
  ASSUME SearchInv, pc = "findCycle", stack # << >>, Top.rest # {}, NEW v,
         v = Wires[Min(Top.rest)].dst, color[v] = "gray", cycle' = CycleFrom(v), pc' = "validate",
         UNCHANGED flowVars
  PROVE  SearchInv'
<1>1. FlowType /\ Searching
  BY DEF SearchInv
<1>2. FlowType' /\ WireSet' = WireSet /\ Cyclic' = Cyclic
  BY <1>1, FlowKept
<1>3. PICK k \in Nat \ {0} : Len(stack) = k /\ Top = stack[k] /\ Min(Top.rest) \in Top.rest
  BY <1>1, LookedIs
<1>4. \A i \in 1..k : stack[i].node \in Ids
  BY <1>1, <1>3, StackIs
<1>5. Leads(stack[k].node, v) /\ v \in Ids
  <2>1. k \in 1..k
    OBVIOUS
  <2>2. Min(Top.rest) \in Out(stack[k].node)
    BY <1>1, <1>3, <2>1 DEF Searching, Path
  <2>3. Min(Top.rest) \in WireIds /\ Wires[Min(Top.rest)].src = stack[k].node
    BY <2>2 DEF Out
  <2>4. QED
    BY <1>1, <2>3, WireTypes DEF Leads
<1>6. \A i \in 1..(k - 1) : Leads(stack[i].node, stack[i + 1].node)
  BY <1>1, <1>3 DEF Searching, Path
<1>7. \E i \in 1..k : stack[i].node = v
  BY <1>1, <1>3, <1>5 DEF Searching, Gray
<1>8. Cyclic
  <2>1. PICK S : S = {stack[i].node : i \in 1..k}
    OBVIOUS
  <2>2. S \in SUBSET Ids
    BY <1>4, <2>1
  <2>3. stack[1].node \in S \cap Nodes
    <3>1. 1 \in 1..k
      OBVIOUS
    <3>2. QED
      BY <1>1, <2>1, <3>1 DEF Searching, Path
  <2>4. ASSUME NEW u \in S PROVE \E x \in S : <<u, x>> \in WireSet
    <3>1. PICK i \in 1..k : u = stack[i].node
      BY <2>1
    <3>2. CASE i = k
      BY <1>1, <1>5, <1>7, <2>1, <3>1, <3>2, WiresLead
    <3>3. CASE i # k
      <4>1. i \in 1..(k - 1) /\ i + 1 \in 1..k
        BY <3>3
      <4>2. Leads(u, stack[i + 1].node) /\ stack[i + 1].node \in S
        BY <1>6, <2>1, <3>1, <4>1
      <4>3. QED
        BY <1>1, <4>2, WiresLead
    <3>4. QED
      BY <3>2, <3>3
  <2>5. QED
    BY <2>2, <2>3, <2>4 DEF Cyclic
<1>9. PICK at \in 1..k : stack[at].node = v /\ at = CHOOSE i \in 1..Len(stack) : stack[i].node = v
  BY <1>3, <1>7
<1>10. PICK n \in Nat : n = k - at + 1 /\ n >= 1
  OBVIOUS
<1>11. PICK q : q = [i \in 1..n |-> stack[at + i - 1].node]
  OBVIOUS
<1>12. /\ q \in Seq(Ids) /\ Len(q) = n /\ \A i \in 1..n : q[i] = stack[at + i - 1].node
  <2>1. \A i \in 1..n : at + i - 1 \in 1..k
    BY <1>10
  <2>2. q \in [1..n -> Ids]
    BY <1>4, <1>11, <2>1
  <2>3. q \in Seq(Ids)
    BY <2>2, IsASeq
  <2>4. QED
    BY <1>11, <2>2, <2>3, LenProperties
<1>13. cycle' = Append(q, v)
  <2>1. cycle' = q \o <<v>>
    BY <1>3, <1>9, <1>10, <1>11 DEF CycleFrom
  <2>2. QED
    BY <1>5, <1>12, <2>1, AppendIsConcat
<1>14. /\ Len(cycle') = n + 1 /\ cycle'[n + 1] = v
       /\ \A i \in 1..n : cycle'[i] = stack[at + i - 1].node
  BY <1>5, <1>12, <1>13, AppendProperties
<1>15. cycle' # << >> /\ Len(cycle') > 1
  BY <1>10, <1>14, EmptySeq
<1>16. cycle'[1] = cycle'[Len(cycle')]
  <2>1. at + 1 - 1 = at /\ 1 \in 1..n
    BY <1>10
  <2>2. QED
    BY <1>9, <1>14, <2>1
<1>17. ASSUME NEW i \in 1..n PROVE <<cycle'[i], cycle'[i + 1]>> \in WireSet
  <2>1. CASE i = n
    <3>1. at + n - 1 = k /\ n \in 1..n
      BY <1>10
    <3>2. cycle'[n] = stack[k].node
      BY <1>14, <3>1
    <3>3. QED
      BY <1>1, <1>5, <1>14, <2>1, <3>2, WiresLead
  <2>2. CASE i # n
    <3>1. PICK j \in 1..(k - 1) : j = at + i - 1
      BY <1>10, <2>2
    <3>2. i + 1 \in 1..n /\ at + (i + 1) - 1 = j + 1
      BY <1>10, <2>2, <3>1
    <3>3. cycle'[i] = stack[j].node /\ cycle'[i + 1] = stack[j + 1].node
      BY <1>14, <3>1, <3>2
    <3>4. QED
      BY <1>1, <1>6, <3>1, <3>3, WiresLead
  <2>3. QED
    BY <2>1, <2>2
<1>18. CycleIsReal'
  <2>1. (n + 1) - 1 = n
    OBVIOUS
  <2>2. QED
    BY <1>2, <1>8, <1>14, <1>15, <1>16, <1>17, <2>1 DEF CycleIsReal
<1>19. QED
  BY <1>2, <1>18 DEF SearchInv

LEMMA VisitTargetKeeps == ASSUME SearchInv, VisitTarget PROVE SearchInv'
<1>1. pc = "findCycle" /\ stack # << >> /\ Top.rest # {} /\ UNCHANGED flowVars
  BY DEF VisitTarget
<1>2. PICK v : v = Wires[Min(Top.rest)].dst
  OBVIOUS
<1>3. FlowType /\ Searching
  BY <1>1 DEF SearchInv
<1>4. CASE color[v] = "white" /\ Enter(v, Append(Below, Looked(Top))) /\ UNCHANGED <<pc, cycle>>
  <2>1. PICK k, s :
        /\ k \in Nat \ {0} /\ Len(stack) = k /\ Top = stack[k] /\ s = Append(Below, Looked(Top))
        /\ Min(Top.rest) \in Top.rest /\ Top.rest \in SUBSET WireIds
        /\ s \in Seq(CallRecord) /\ Len(s) = k
        /\ \A i \in 1..(k - 1) : s[i] = stack[i]
        /\ s[k] = [node |-> stack[k].node, rest |-> stack[k].rest \ {Min(Top.rest)}]
    BY <1>1, <1>3, LookedIs DEF CallRecord
  <2>2. v \in Ids
    BY <1>2, <1>3, <2>1, WireTypes
  <2>3. \A i \in 1..k : s[i].node = stack[i].node
    <3>1. \A i \in 1..k : i \in 1..(k - 1) \/ i = k
      BY <2>1
    <3>2. QED
      BY <2>1, <3>1
  <2>4. \E w \in stack[k].rest : s[k].rest = stack[k].rest \ {w} /\ Wires[w].dst = v
    BY <1>2, <2>1
  <2>5. /\ Enter(v, s) /\ cycle' = cycle /\ k \in Nat /\ color[v] = "white"
        /\ k = 0 => v \in Nodes
        /\ k > 0 => \E w \in stack[k].rest : s[k].rest = stack[k].rest \ {w} /\ Wires[w].dst = v
        /\ \A i \in 1..(k - 1) : s[i].rest = stack[i].rest
    BY <1>4, <2>1, <2>4
  <2>6. Searching'
    <3>1. s \in Seq(CallRecord) /\ Len(s) = k /\ Len(stack) = k /\ UNCHANGED flowVars
      BY <1>1, <2>1
    <3>2. QED
      BY <1>3, <2>2, <2>3, <2>5, <3>1, EnterKeeps, Zenon
  <2>7. FlowType' /\ CycleIsReal'
    BY <1>1, <1>4, CycleKept
  <2>8. QED
    BY <2>6, <2>7 DEF SearchInv
<1>5. CASE color[v] = "gray" /\ cycle' = CycleFrom(v) /\ pc' = "validate"
  BY <1>1, <1>2, <1>5, GrayTargetKeeps
<1>6. CASE color[v] = "black" /\ stack' = Append(Below, Looked(Top)) /\ UNCHANGED <<pc, color, cycle>>
  BY <1>1, <1>2, <1>6, BlackTargetKeeps
<1>7. QED
  BY <1>2, <1>4, <1>5, <1>6 DEF VisitTarget

(* A call returns once all its node leads to is black: neither it nor a set *)
(* of black ids it joins leads back into itself.                           *)
LEMMA LeaveKeeps == ASSUME SearchInv, Leave PROVE SearchInv'
<1>1. /\ pc = "findCycle" /\ stack # << >> /\ Top.rest = {} /\ pc' = pc /\ cycle' = cycle
      /\ color' = [color EXCEPT ![Top.node] = "black"] /\ stack' = Below /\ UNCHANGED flowVars
  BY DEF Leave
<1>2. FlowType /\ Searching /\ FlowType' /\ CycleIsReal'
  BY <1>1, CycleKept DEF SearchInv
<1>3. PICK k \in Nat \ {0} :
        /\ Len(stack) = k /\ Top = stack[k] /\ Top \in CallRecord
        /\ stack' \in Seq(CallRecord) /\ Len(stack') = k - 1
        /\ \A i \in 1..(k - 1) : stack'[i] = stack[i]
  BY <1>1, <1>2, LookedIs
<1>4. PICK u \in Ids : u = stack[k].node /\ color' = [color EXCEPT ![u] = "black"]
  BY <1>1, <1>3 DEF CallRecord
<1>5. color \in [Ids -> {"white", "gray", "black"}] /\ cycle = << >>
  BY <1>2 DEF Searching, SearchType
<1>6. CallRecord' = CallRecord /\ Wires' = Wires /\ WireIds' = WireIds
      /\ (\A x : Out(x)' = Out(x)) /\ (\A x, y : Leads(x, y)' = Leads(x, y))
  BY <1>1, FlowKept DEF CallRecord
<1>7. k \in 1..k /\ \A i \in 1..(k - 1) : i \in 1..k /\ i # k
  OBVIOUS
<1>8. \A w \in Out(u) : Wires[w].dst \in Black
  <2> SUFFICES ASSUME NEW w \in Out(u) PROVE Wires[w].dst \in Black
    OBVIOUS
  <2>1. Wires[w].dst \in Ids
    BY <1>2, WireTypes DEF Out
  <2>2. w \in Out(stack[k].node) \ stack[k].rest
    BY <1>1, <1>3, <1>4
  <2>3. color[Wires[w].dst] = "black" \/ (k < k /\ Wires[w].dst = stack[k + 1].node)
    BY <1>2, <1>3, <1>7, <2>2 DEF Searching, LookedAt
  <2>4. QED
    BY <2>1, <2>3 DEF Black
<1>9. color[u] = "gray" /\ u \notin Black
  <2>1. color[u] = "gray"
    BY <1>2, <1>3, <1>4, <1>7 DEF Searching, Gray
  <2>2. QED
    BY <2>1 DEF Black
<1>10. Black' = Black \cup {u}
  BY <1>4, <1>5 DEF Black
<1>11. SearchType'
  <2>1. color' \in [Ids -> {"white", "gray", "black"}]
    BY <1>4, <1>5
  <2>2. QED
    BY <1>1, <1>3, <1>5, <1>6, <2>1 DEF SearchType
<1>12. Path'
  <2>1. PICK j \in Nat : j = k - 1 /\ Len(stack') = j
    BY <1>3
  <2>2. stack' # << >> => 1 \in 1..j
    BY <1>3, <2>1, EmptySeq
  <2>3. \A i \in 1..(j - 1) : i \in 1..j /\ i + 1 \in 1..j /\ i \in 1..(k - 1)
    BY <2>1
  <2>4. QED
    BY <1>1, <1>2, <1>3, <1>6, <1>7, <2>1, <2>2, <2>3 DEF Searching, Path
<1>13. Gray'
  <2> SUFFICES ASSUME NEW x \in Ids
               PROVE  color'[x] = "gray" <=> \E i \in 1..(k - 1) : stack[i].node = x
    BY <1>3 DEF Gray
  <2>1. CASE x = u
    <3>1. color'[x] = "black"
      BY <1>4, <1>5, <2>1
    <3>2. \A i \in 1..(k - 1) : stack[i].node # stack[k].node
      BY <1>2, <1>3, <1>7 DEF Searching, Path
    <3>3. QED
      BY <1>4, <2>1, <3>1, <3>2
  <2>2. CASE x # u
    <3>1. color'[x] = color[x]
      BY <1>4, <1>5, <2>2
    <3>2. color[x] = "gray" <=> \E i \in 1..k : stack[i].node = x
      BY <1>2, <1>3 DEF Searching, Gray
    <3>3. \A i \in 1..k : stack[i].node = x => i \in 1..(k - 1)
      BY <1>4, <2>2
    <3>4. QED
      BY <1>7, <3>1, <3>2, <3>3
  <2>3. QED
    BY <2>1, <2>2
<1>14. LookedAt'
  <2> SUFFICES ASSUME NEW i \in 1..(k - 1), NEW w \in Out(stack[i].node), w \notin stack[i].rest
               PROVE  \/ color'[Wires[w].dst] = "black"
                      \/ i < k - 1 /\ Wires[w].dst = stack'[i + 1].node
    BY <1>3, <1>6 DEF LookedAt
  <2>1. Wires[w].dst \in Ids
    BY <1>2, WireTypes DEF Out
  <2>2. color[Wires[w].dst] = "black" \/ (i < k /\ Wires[w].dst = stack[i + 1].node)
    BY <1>2, <1>3, <1>7 DEF Searching, LookedAt
  <2>3. CASE color[Wires[w].dst] = "black" \/ Wires[w].dst = u
    BY <1>4, <1>5, <2>1, <2>3
  <2>4. CASE Wires[w].dst = stack[i + 1].node /\ Wires[w].dst # u
    <3>1. i + 1 # k
      BY <1>4, <2>4
    <3>2. i < k - 1 /\ i + 1 \in 1..(k - 1)
      BY <3>1
    <3>3. QED
      BY <1>3, <2>4, <3>2
  <2>5. QED
    BY <2>2, <2>3, <2>4
<1>15. BlackClosed'
  <2>1. \A x \in Black : \A w \in Out(x) : Wires[w].dst \in Black
    BY <1>2 DEF Searching, BlackClosed
  <2>2. QED
    BY <1>6, <1>8, <1>10, <2>1 DEF BlackClosed
<1>16. BlackAcyclic'
  <2>1. \A x \in Ids : x \in Black \cup {u} => \A y : Leads(x, y) => y \in Black
    BY <1>2, <1>8 DEF Searching, BlackClosed, Leads, Out
  <2> SUFFICES ASSUME NEW S \in SUBSET (Black \cup {u}), S # {} PROVE Sink(S)
    BY <1>6, <1>10 DEF BlackAcyclic, Sink
  <2>2. CASE S \ {u} = {}
    <3>1. S = {u}
      BY <2>2
    <3>2. QED
      BY <1>9, <2>1, <3>1 DEF Sink
  <2>3. CASE S \ {u} # {}
    <3>1. PICK x \in S \ {u} : \A y \in S \ {u} : ~Leads(x, y)
      BY <1>2, <2>3 DEF Searching, BlackAcyclic, Sink
    <3>2. x \in Ids /\ x \in Black \cup {u}
      BY <3>1 DEF Black
    <3>3. ~Leads(x, u)
      BY <1>9, <2>1, <3>2
    <3>4. QED
      BY <3>1, <3>3 DEF Sink
  <2>4. QED
    BY <2>2, <2>3
<1>17. QED
  BY <1>1, <1>2, <1>11, <1>12, <1>13, <1>14, <1>15, <1>16 DEF SearchInv, Searching

(* All nodes black: an id reachable from one is black too, and what comes   *)
(* back to itself among the black ids there is none.                       *)
LEMMA NoCycleKeeps == ASSUME SearchInv, NoCycle PROVE SearchInv'
<1>1. /\ pc = "findCycle" /\ stack = << >> /\ pc' = "validate" /\ UNCHANGED flowVars
      /\ cycle' = cycle /\ \A n \in Nodes : color[n] # "white"
  BY DEF NoCycle, dfsVars
<1>2. FlowType /\ Searching /\ CycleIsReal
  BY <1>1 DEF SearchInv
<1>3. FlowType' /\ WireSet' = WireSet /\ Cyclic' = Cyclic
  BY <1>1, <1>2, FlowKept
<1>4. Nodes \subseteq Black
  <2>1. Len(stack) = 0
    BY <1>1, EmptySeq
  <2>2. \A u \in Ids : color[u] # "gray"
    BY <1>2, <2>1 DEF Searching, Gray
  <2>3. color \in [Ids -> {"white", "gray", "black"}]
    BY <1>2 DEF Searching, SearchType
  <2>4. QED
    BY <1>1, <2>2, <2>3, Numbers DEF Black
<1>5. ~Cyclic
  <2> SUFFICES ASSUME NEW S \in SUBSET Ids, S \cap Nodes # {},
                      \A u \in S : \E v \in S : <<u, v>> \in WireSet
               PROVE  FALSE
    BY DEF Cyclic
  <2>1. PICK T : T = S \cap Black
    OBVIOUS
  <2>2. T \in SUBSET Black /\ T # {}
    BY <1>4, <2>1
  <2>3. PICK u \in T : \A v \in T : ~Leads(u, v)
    BY <1>2, <2>2 DEF Searching, BlackAcyclic, Sink
  <2>4. PICK v \in S : <<u, v>> \in WireSet
    BY <2>1, <2>3
  <2>5. Leads(u, v)
    BY <1>2, <2>4, WiresLead
  <2>6. v \in Black
    BY <1>2, <2>1, <2>3, <2>5 DEF Searching, BlackClosed, Leads, Out
  <2>7. QED
    BY <2>1, <2>3, <2>4, <2>5, <2>6
<1>6. cycle = << >>
  BY <1>2 DEF Searching, SearchType
<1>7. CycleIsReal'
  BY <1>1, <1>2, <1>3, <1>5, <1>6 DEF CycleIsReal
<1>8. QED
  BY <1>1, <1>3, <1>7 DEF SearchInv

LEMMA SearchInvStep == ASSUME SearchInv, [Next]_vars PROVE SearchInv'
<1>1. CASE VisitRoot
  BY <1>1, VisitRootKeeps
<1>2. CASE VisitTarget
  BY <1>2, VisitTargetKeeps
<1>3. CASE Leave
  BY <1>3, LeaveKeeps
<1>4. CASE NoCycle
  BY <1>4, NoCycleKeeps
<1>5. CASE Validate \/ Index \/ BeginLayer \/ VisitNode \/ CountDown \/ Finish
  <2>1. UNCHANGED flowVars /\ cycle' = cycle /\ pc # "findCycle" /\ pc' # "findCycle"
    BY <1>5 DEF Validate, Index, BeginLayer, VisitNode, CountDown, Finish, dfsVars
  <2>2. FlowType' /\ CycleIsReal'
    BY <2>1, CycleKept
  <2>3. QED
    BY <2>1, <2>2 DEF SearchInv
<1>6. CASE UNCHANGED vars
  <2>1. UNCHANGED flowVars /\ cycle' = cycle /\ pc' = pc /\ color' = color /\ stack' = stack
    BY <1>6 DEF vars, dfsVars
  <2>2. FlowType' /\ CycleIsReal'
    BY <2>1, CycleKept
  <2>3. /\ WireIds' = WireIds /\ Wires' = Wires
        /\ (\A x : Out(x)' = Out(x)) /\ (\A x, y : Leads(x, y)' = Leads(x, y))
    BY <2>1, FlowKept
  <2>4. ASSUME Searching PROVE Searching'
    <3>1. SearchType' /\ Gray' /\ Black' = Black
      BY <2>1, <2>3, <2>4 DEF Searching, SearchType, CallRecord, Gray, Black
    <3>2. Path' /\ LookedAt'
      BY <2>1, <2>3, <2>4 DEF Searching, Path, LookedAt
    <3>3. BlackClosed' /\ BlackAcyclic'
      BY <2>3, <2>4, <3>1 DEF Searching, BlackClosed, BlackAcyclic, Sink
    <3>4. QED
      BY <3>1, <3>2, <3>3 DEF Searching
  <2>5. QED
    BY <2>1, <2>2, <2>4 DEF SearchInv
<1>7. QED
  BY <1>1, <1>2, <1>3, <1>4, <1>5, <1>6 DEF Next

(* findCycle, whatever the ids, wires and their order: if it returns a      *)
(* cycle then it is one, of edges and mappings, closed; and it returns none *)
(* exactly if no node of the flow leads into one.  An invariant of the      *)
(* whole of Compile, from the search's own: the open calls are a path, and  *)
(* the ids done with do not lead back into themselves.                     *)
THEOREM CompileFindsCycles == Spec => []CycleIsReal
<1>1. Init => SearchInv
  BY InitSearches
<1>2. SearchInv /\ [Next]_vars => SearchInv'
  BY SearchInvStep
<1>3. SearchInv => CycleIsReal
  BY DEF SearchInv
<1>4. QED
  BY <1>1, <1>2, <1>3, PTL DEF Spec

(***************************************************************************)
(* Kahn's layering.                                                        *)
(***************************************************************************)
LEMMA ValidWires ==
  ASSUME FlowType, Valid
  PROVE  \A i \in WireIds : Wires[i].src \in Nodes /\ Wires[i].dst \in Nodes
<1> SUFFICES ASSUME NEW i \in WireIds PROVE Wires[i].src \in Nodes /\ Wires[i].dst \in Nodes
  OBVIOUS
<1>1. PICK m \in Nat, n \in Nat : m = Len(edges) /\ n = Len(maps) /\ Len(Wires) = m + n
  BY WiresAre
<1>2. i \in 1..(m + n) /\ Wires[i].src # NoNode
  BY <1>1 DEF WireIds
<1>3. ~EdgeIssue /\ ~MapIssue
  BY DEF Valid
<1>4. CASE i \in 1..m
  BY <1>1, <1>3, <1>4, WiresAre DEF EdgeIssue
<1>5. CASE i \notin 1..m
  <2>1. i - m \in 1..n /\ m + (i - m) = i
    BY <1>2, <1>5
  <2>2. Wires[i] = maps[i - m]
    BY <1>1, <2>1, WiresAre
  <2>3. maps[i - m].dst \in Nodes /\ maps[i - m].src \in Nodes \cup {NoNode}
    BY <1>1, <1>3, <2>1 DEF MapIssue
  <2>4. QED
    BY <1>2, <2>2, <2>3
<1>6. QED
  BY <1>4, <1>5

(* Nodes each of which another of them leads to hold a cycle: the smallest  *)
(* such set leads nowhere else.                                            *)
LEMMA FedIsCyclic ==
  ASSUME FlowType, NEW R \in SUBSET Nodes, R # {}, \A v \in R : \E u \in R : Leads(u, v)
  PROVE  Cyclic
<1> DEFINE Fed(T) == T # {} /\ \A v \in T : \E u \in T : Leads(u, v)
<1>1. PICK C : C = {Cardinality(T) : T \in {x \in SUBSET R : Fed(x)}}
  OBVIOUS
<1>2. \A T \in SUBSET R : IsFiniteSet(T) /\ Cardinality(T) \in Nat
  <2> SUFFICES ASSUME NEW T \in SUBSET R PROVE IsFiniteSet(T) /\ Cardinality(T) \in Nat
    OBVIOUS
  <2>1. T \in SUBSET Nodes
    OBVIOUS
  <2>2. IsFiniteSet(T)
    BY <2>1, Numbers, FS_Subset
  <2>3. QED
    BY <2>2, FS_CardinalityType
<1>3. C \in SUBSET Nat /\ C # {}
  <2>1. Fed(R) /\ R \in SUBSET R
    OBVIOUS
  <2>2. Cardinality(R) \in C
    BY <1>1, <2>1
  <2>3. C \in SUBSET Nat
    BY <1>1, <1>2
  <2>4. QED
    BY <2>2, <2>3
<1>4. Min(C) \in C /\ \A y \in C : Min(C) <= y
  BY <1>3, MinIs
<1>5. PICK T \in SUBSET R : Fed(T) /\ Cardinality(T) = Min(C)
  BY <1>1, <1>4
<1>6. ASSUME NEW u \in T PROVE \E v \in T : <<u, v>> \in WireSet
  <2> SUFFICES ASSUME \A v \in T : ~Leads(u, v) PROVE FALSE
    BY WiresLead
  <2>1. \A v \in T \ {u} : \E x \in T \ {u} : Leads(x, v)
    BY <1>5
  <2>2. T \ {u} # {}
    BY <1>5
  <2>3. Cardinality(T \ {u}) \in C
    BY <1>1, <2>1, <2>2
  <2>4. Cardinality(T \ {u}) = Cardinality(T) - 1 /\ Cardinality(T) \in Nat
    BY <1>2, FS_RemoveElement
  <2>5. QED
    BY <1>4, <1>5, <2>3, <2>4
<1>7. T \in SUBSET Ids /\ T \cap Nodes # {}
  BY <1>5, Numbers
<1>8. QED
  BY <1>6, <1>7 DEF Cyclic

(* The sequences of the layering, by their lengths.                        *)
LEMMA SeqsAre ==
  ASSUME KahnType
  PROVE  /\ Len(layers) \in Nat /\ Len(next) \in Nat /\ Len(todo) \in Nat
         /\ \A l \in 1..Len(layers) :
              layers[l] \in Seq(Nodes) /\ Len(layers[l]) \in Nat /\ \A i \in 1..Len(layers[l]) : layers[l][i] \in Nodes
         /\ \A i \in 1..Len(next) : next[i] \in Nodes
         /\ \A i \in 1..Len(todo) : todo[i] \in Nodes
         /\ (layers = << >> <=> Len(layers) = 0) /\ (next = << >> <=> Len(next) = 0) /\ (todo = << >> <=> Len(todo) = 0)
<1>1. layers \in Seq(Seq(Nodes)) /\ next \in Seq(Nodes) /\ todo \in Seq(Nodes)
  BY DEF KahnType
<1>2. Len(layers) \in Nat /\ Len(next) \in Nat /\ Len(todo) \in Nat
  BY <1>1, LenProperties
<1>3. ASSUME NEW l \in 1..Len(layers)
      PROVE  layers[l] \in Seq(Nodes) /\ Len(layers[l]) \in Nat /\ \A i \in 1..Len(layers[l]) : layers[l][i] \in Nodes
  <2>1. PICK q \in Seq(Nodes) : q = layers[l]
    BY <1>1, ElementOfSeq
  <2>2. Len(q) \in Nat /\ \A i \in 1..Len(q) : q[i] \in Nodes
    BY LenProperties, ElementOfSeq
  <2>3. QED
    BY <2>1, <2>2
<1>4. (\A i \in 1..Len(next) : next[i] \in Nodes) /\ \A i \in 1..Len(todo) : todo[i] \in Nodes
  BY <1>1, ElementOfSeq
<1>5. (layers = << >> <=> Len(layers) = 0) /\ (next = << >> <=> Len(next) = 0) /\ (todo = << >> <=> Len(todo) = 0)
  BY <1>1, EmptySeq
<1>6. QED
  BY <1>2, <1>3, <1>4, <1>5

LEMMA UncountedFinite == ASSUME FlowType, NEW v PROVE IsFiniteSet(Uncounted(v)) /\ Cardinality(Uncounted(v)) \in Nat
<1>1. Uncounted(v) \in SUBSET WireIds
  BY DEF Uncounted
<1>2. IsFiniteSet(Uncounted(v))
  BY <1>1, WireTypes, FS_Subset
<1>3. QED
  BY <1>2, FS_CardinalityType

(* Index: every wire is still to be counted, the nodes without one come     *)
(* first.                                                                  *)
LEMMA IndexKeeps == ASSUME SearchInv, LayerInv, Index PROVE Layering'
<1>1. /\ pc = "index" /\ UNCHANGED flowVars /\ cycle' = cycle
      /\ layers' = layers /\ todo' = todo /\ work' = work /\ visited' = visited
      /\ indeg' = [v \in Ids |-> InDegree(v)]
      /\ next' \in InOrder({n \in Nodes : InDegree(n) = 0})
  BY DEF Index, dfsVars
<1>2. /\ FlowType /\ Valid /\ layers' = << >> /\ todo' = << >> /\ work' = {} /\ visited' = 0
  BY <1>1 DEF SearchInv, LayerInv
<1>3. Wires' = Wires /\ WireIds' = WireIds
  BY <1>1, FlowKept
<1>4. PICK S : S = {n \in Nodes : InDegree(n) = 0}
  OBVIOUS
<1>5. PICK c \in Nat : c = Cardinality(S)
  <2>1. S \in SUBSET Nodes
    BY <1>4
  <2>2. IsFiniteSet(S)
    BY <2>1, Numbers, FS_Subset
  <2>3. QED
    BY <2>2, FS_CardinalityType
<1>6. /\ next' \in [1..c -> S] /\ ToSet(next)' = S
      /\ \A i, j \in 1..c : i < j => next'[i] < next'[j]
  BY <1>1, <1>4, <1>5 DEF InOrder, ToSet
<1>7. next' \in Seq(Nodes) /\ Len(next') = c
  <2>1. next' \in [1..c -> Nodes]
    BY <1>4, <1>6
  <2>2. next' \in Seq(Nodes)
    BY <2>1, IsASeq
  <2>3. QED
    BY <2>1, <2>2, LenProperties
<1>8. \A v : InDegree(v) \in Nat /\ (InDegree(v) = 0 <=> {i \in WireIds : Wires[i].dst = v} = {})
  <2> SUFFICES ASSUME NEW v
               PROVE  InDegree(v) \in Nat /\ (InDegree(v) = 0 <=> {i \in WireIds : Wires[i].dst = v} = {})
    OBVIOUS
  <2>1. PICK A \in SUBSET WireIds : A = {i \in WireIds : Wires[i].dst = v}
    OBVIOUS
  <2>2. IsFiniteSet(A)
    BY <1>2, WireTypes, FS_Subset
  <2>3. Cardinality(A) \in Nat /\ (Cardinality(A) = 0 <=> A = {})
    BY <2>2, FS_CardinalityType, FS_EmptySet
  <2>4. QED
    BY <2>1, <2>3 DEF InDegree
<1>9. Len(layers') = 0 /\ Len(todo') = 0
  BY <1>2, EmptySeq
<1>10. KahnType'
  <2>1. \A i \in WireIds : Wires[i].src \in Nodes /\ Wires[i].dst \in Nodes
    BY <1>2, ValidWires
  <2>2. indeg' \in [Ids -> Nat]
    BY <1>1, <1>8
  <2>3. layers' \in Seq(Seq(Nodes)) /\ todo' \in Seq(Nodes)
    BY <1>2, EmptySeq
  <2>4. QED
    BY <1>2, <1>3, <1>7, <2>1, <2>2, <2>3 DEF KahnType
<1>11. Placed' = {} /\ Awaiting' = {} /\ Done' = {}
  BY <1>9 DEF Placed, Awaiting, Done
<1>12. Coming' = S
  <2>1. \A n : n \in S <=> \E i \in 1..c : next'[i] = n
    BY <1>6 DEF ToSet
  <2>2. QED
    BY <1>4, <1>7, <2>1 DEF Coming
<1>13. Once'
  <2>1. ASSUME NEW i \in 1..c, NEW j \in 1..c, next'[i] = next'[j] PROVE i = j
    <3>1. next'[i] \in Nat /\ next'[j] \in Nat
      BY <1>7, Numbers, ElementOfSeq
    <3>2. QED
      BY <1>6, <2>1, <3>1
  <2>2. QED
    BY <1>7, <1>9, <1>11, <2>1 DEF Once
<1>14. InHand'
  BY <1>2 DEF InHand
<1>15. \A v : Uncounted(v)' = {i \in WireIds : Wires[i].dst = v}
  BY <1>2, <1>3, <1>11 DEF Uncounted
<1>16. Counting'
  <2>1. visited' = Cardinality(Done')
    BY <1>2, <1>11, FS_EmptySet
  <2>2. \A v \in Nodes : indeg'[v] = Cardinality(Uncounted(v)')
    BY <1>1, <1>15, Numbers DEF InDegree
  <2>3. \A v \in Nodes : Uncounted(v)' = {} <=> v \in Placed' \cup Coming'
    BY <1>4, <1>8, <1>11, <1>12, <1>15
  <2>4. QED
    BY <2>1, <2>2, <2>3 DEF Counting
<1>17. Later' /\ Soon'
  BY <1>2, <1>9 DEF Later, Soon
<1>18. QED
  BY <1>10, <1>13, <1>14, <1>16, <1>17 DEF Layering

(* The queue becomes the last layer: all wires into its nodes are counted,  *)
(* so their sources are in the layers before.                              *)
LEMMA NewLayerKeeps ==
  ASSUME FlowType, Layering, work = {}, todo = << >>, next # << >>,
         layers' = Append(layers, next), todo' = next, next' = << >>,
         UNCHANGED <<flowVars, indeg, visited, work>>
  PROVE  Layering'
<1>1. KahnType /\ Once /\ InHand /\ Counting /\ Later /\ Soon
  BY DEF Layering
<1>2. PICK L \in Nat, c \in Nat : L = Len(layers) /\ c = Len(next)
  BY <1>1, SeqsAre
<1>3. /\ layers \in Seq(Seq(Nodes)) /\ next \in Seq(Nodes)
  BY <1>1 DEF KahnType
<1>4. /\ layers' \in Seq(Seq(Nodes)) /\ Len(layers') = L + 1 /\ layers'[L + 1] = next
      /\ \A l \in 1..L : layers'[l] = layers[l]
  BY <1>2, <1>3, AppendProperties
<1>5. /\ \A l \in 1..L : \A n : InLayer(l, n)' <=> InLayer(l, n)
      /\ \A n : InLayer(L + 1, n)' <=> \E i \in 1..c : next[i] = n
  BY <1>2, <1>4 DEF InLayer
<1>6. \A l \in 1..(L + 1) : l \in 1..L \/ l = L + 1
  OBVIOUS
<1>7. Wires' = Wires /\ WireIds' = WireIds /\ \A u, v : Leads(u, v)' = Leads(u, v)
  BY FlowKept
<1>8. Len(next') = 0 /\ Len(todo) = 0 /\ Len(todo') = c
  BY <1>2, EmptySeq
<1>9. Coming' = {} /\ Awaiting = {} /\ Awaiting' = Coming
  BY <1>2, <1>8 DEF Coming, Awaiting
<1>10. Placed' = Placed \cup Coming
  <2> SUFFICES ASSUME NEW n \in Nodes PROVE n \in Placed' <=> n \in Placed \/ n \in Coming
    BY DEF Placed, Coming
  <2>1. n \in Placed' <=> \E l \in 1..(L + 1) : InLayer(l, n)'
    BY <1>4 DEF Placed, InLayer
  <2>2. n \in Placed <=> \E l \in 1..L : InLayer(l, n)
    BY <1>2 DEF Placed
  <2>3. n \in Coming <=> InLayer(L + 1, n)'
    BY <1>2, <1>5 DEF Coming
  <2>4. L + 1 \in 1..(L + 1) /\ \A l \in 1..L : l \in 1..(L + 1)
    OBVIOUS
  <2>5. QED
    BY <1>5, <1>6, <2>1, <2>2, <2>3, <2>4
<1>11. Done' = Done
  <2>1. Coming \cap Placed = {}
    BY <1>1 DEF Once
  <2>2. QED
    BY <1>9, <1>10, <2>1 DEF Done
<1>12. \A v : Uncounted(v)' = Uncounted(v)
  BY <1>7, <1>11 DEF Uncounted
<1>13. KahnType'
  <2>1. next' \in Seq(Nodes)
    BY EmptySeq
  <2>2. QED
    BY <1>1, <1>3, <1>4, <1>7, <2>1 DEF KahnType
<1>14. Once'
  <2>1. ASSUME NEW l \in 1..(L + 1), NEW k \in 1..(L + 1),
               NEW i \in 1..Len(layers'[l]), NEW j \in 1..Len(layers'[k]), layers'[l][i] = layers'[k][j]
        PROVE  l = k /\ i = j
    <3>1. CASE l \in 1..L /\ k \in 1..L
      BY <1>1, <1>2, <1>4, <2>1, <3>1 DEF Once
    <3>2. CASE l = L + 1 /\ k = L + 1
      BY <1>1, <1>2, <1>4, <2>1, <3>2 DEF Once
    <3>3. ASSUME NEW a \in 1..L, NEW x \in 1..Len(layers[a]), NEW y \in 1..c PROVE layers[a][x] # next[y]
      <4>1. layers[a][x] \in Nodes
        BY <1>1, <1>2, SeqsAre
      <4>2. layers[a][x] \in Placed
        BY <1>2, <4>1 DEF Placed, InLayer
      <4>3. next[y] = layers[a][x] => layers[a][x] \in Coming
        BY <1>2, <4>1 DEF Coming
      <4>4. QED
        BY <1>1, <4>2, <4>3 DEF Once
    <3>4. QED
      BY <1>2, <1>4, <1>6, <2>1, <3>1, <3>2, <3>3
  <2>2. \A i, j \in 1..c : next[i] = next[j] => i = j
    BY <1>1, <1>2 DEF Once
  <2>3. QED
    BY <1>4, <1>8, <1>9, <2>1, <2>2 DEF Once
<1>15. InHand'
  <2>1. \A n \in Coming : InLayer(L + 1, n)'
    BY <1>2, <1>5 DEF Coming
  <2>2. layers' # << >>
    BY <1>4, EmptySeq
  <2>3. \A n \in Awaiting' : InLayer(Len(layers), n)'
    BY <1>4, <1>9, <2>1 DEF InLayer
  <2>4. QED
    BY <2>2, <2>3 DEF InHand
<1>16. Counting'
  <2>1. \A v \in Nodes : Uncounted(v) = {} <=> v \in Placed \cup Coming
    BY <1>1 DEF Counting
  <2>2. visited = Cardinality(Done) /\ \A v \in Nodes : indeg[v] = Cardinality(Uncounted(v))
    BY <1>1 DEF Counting
  <2>3. QED
    BY <1>9, <1>10, <1>11, <1>12, <2>1, <2>2 DEF Counting
<1>17. Later'
  <2> SUFFICES ASSUME NEW i \in WireIds, NEW l \in 1..(L + 1), InLayer(l, Wires[i].dst)'
               PROVE  \E k \in 1..(l - 1) : InLayer(k, Wires[i].src)'
    BY <1>4, <1>7 DEF Later
  <2>1. PICK s \in Nodes, d \in Nodes : s = Wires[i].src /\ d = Wires[i].dst /\ InLayer(l, d)'
    BY <1>1, <1>7 DEF KahnType
  <2>2. CASE l \in 1..L
    <3>1. InLayer(l, Wires[i].dst)
      BY <1>5, <2>1, <2>2
    <3>2. PICK k \in 1..(l - 1) : InLayer(k, Wires[i].src)
      BY <1>1, <1>2, <2>2, <3>1 DEF Later
    <3>3. k \in 1..L
      BY <2>2
    <3>4. InLayer(k, s)'
      BY <1>5, <2>1, <3>2, <3>3
    <3>5. QED
      BY <1>7, <2>1, <3>4
  <2>3. CASE l = L + 1
    <3>1. d \in Coming
      BY <1>2, <1>5, <2>1, <2>3 DEF Coming
    <3>2. Uncounted(d) = {}
      BY <1>1, <3>1 DEF Counting
    <3>3. s \in Done
      BY <2>1, <3>2 DEF Uncounted
    <3>4. PICK k \in 1..L : InLayer(k, s)
      BY <1>2, <3>3 DEF Done, Placed
    <3>5. InLayer(k, s)' /\ k \in 1..(l - 1)
      BY <1>5, <2>3, <3>4
    <3>6. QED
      BY <1>7, <2>1, <3>5
  <2>4. QED
    BY <1>6, <2>2, <2>3
<1>18. Soon'
  <2>1. ASSUME NEW l \in 2..(L + 1), NEW n \in Nodes, InLayer(l, n)'
        PROVE  \E m \in Nodes : InLayer(l - 1, m)' /\ Leads(m, n)
    <3>1. PICK k \in 1..L : k = l - 1
      OBVIOUS
    <3>2. CASE l \in 2..L
      <4>1. InLayer(l, n)
        BY <1>5, <2>1, <3>2
      <4>2. PICK m \in Nodes : InLayer(k, m) /\ Leads(m, n)
        BY <1>1, <1>2, <3>1, <3>2, <4>1 DEF Soon
      <4>3. InLayer(k, m)'
        BY <1>5, <4>2
      <4>4. QED
        BY <3>1, <4>2, <4>3
    <3>3. CASE l = L + 1
      <4>1. n \in Coming
        BY <1>2, <1>5, <2>1, <3>3 DEF Coming
      <4>2. layers # << >> /\ k = L
        BY <1>1, <1>2, <3>1, <3>3, SeqsAre
      <4>3. PICK m \in Nodes : InLayer(k, m) /\ Leads(m, n)
        BY <1>1, <1>2, <4>1, <4>2 DEF Soon
      <4>4. InLayer(k, m)'
        BY <1>5, <4>3
      <4>5. QED
        BY <3>1, <4>3, <4>4
    <3>4. QED
      BY <1>6, <3>2, <3>3
  <2>2. ASSUME NEW l \in 2..Len(layers'), NEW n \in Nodes, InLayer(l, n)'
        PROVE  \E m \in Nodes : InLayer(l - 1, m)' /\ Leads(m, n)'
    BY <1>4, <1>7, <2>1, <2>2
  <2>3. QED
    BY <1>9, <2>2 DEF Soon
<1>19. QED
  BY <1>13, <1>14, <1>15, <1>16, <1>17, <1>18 DEF Layering

(* What depends on the layers and the flow only.                           *)
LEMMA LayersKept ==
  ASSUME UNCHANGED flowVars, layers' = layers
  PROVE  Placed' = Placed /\ (\A l, n : InLayer(l, n)' = InLayer(l, n)) /\ Later' = Later
<1>1. Wires' = Wires /\ WireIds' = WireIds
  BY FlowKept
<1>2. QED
  BY <1>1 DEF Placed, InLayer, Later

(* Looking at a node takes its wires from one reason not to be counted to   *)
(* the other.                                                              *)
LEMMA VisitNodeKeeps ==
  ASSUME FlowType, Layering, VisitNode
  PROVE  Layering'
<1>1. KahnType /\ Once /\ InHand /\ Counting /\ Later /\ Soon
  BY DEF Layering
<1>2. /\ work = {} /\ todo # << >> /\ visited' = visited + 1
      /\ work' = Out(Head(todo)) /\ todo' = Tail(todo)
      /\ UNCHANGED flowVars /\ layers' = layers /\ indeg' = indeg /\ next' = next
  BY DEF VisitNode
<1>3. todo \in Seq(Nodes)
  BY <1>1 DEF KahnType
<1>4. PICK t \in Nat, n \in Nodes : t = Len(todo) /\ n = Head(todo) /\ n = todo[1] /\ t >= 1
  <2>1. Head(todo) \in Nodes /\ Head(todo) = todo[1]
    BY <1>2, <1>3, HeadTailProperties
  <2>2. QED
    BY <1>1, <1>2, <2>1, SeqsAre
<1>5. todo' \in Seq(Nodes) /\ Len(todo') = t - 1 /\ \A i \in 1..(t - 1) : todo'[i] = todo[i + 1]
  BY <1>2, <1>3, <1>4, HeadTailProperties
<1>6. \A i, j \in 1..t : todo[i] = todo[j] => i = j
  BY <1>1, <1>4 DEF Once
<1>7. Awaiting' = Awaiting \ {n} /\ n \in Awaiting
  <2>1. \A m : (\E i \in 1..(t - 1) : todo'[i] = m) <=> m # n /\ \E i \in 1..t : todo[i] = m
    <3>1. ASSUME NEW m, NEW i \in 1..(t - 1), todo'[i] = m PROVE m # n /\ \E j \in 1..t : todo[j] = m
      <4>1. i + 1 \in 1..t /\ 1 \in 1..t /\ i + 1 # 1
        OBVIOUS
      <4>2. QED
        BY <1>4, <1>5, <1>6, <3>1, <4>1
    <3>2. ASSUME NEW m, m # n, NEW i \in 1..t, todo[i] = m PROVE \E j \in 1..(t - 1) : todo'[j] = m
      <4>1. i # 1
        BY <1>4, <3>2
      <4>2. i - 1 \in 1..(t - 1) /\ (i - 1) + 1 = i
        BY <4>1
      <4>3. QED
        BY <1>5, <3>2, <4>2
    <3>3. QED
      BY <3>1, <3>2
  <2>2. n \in Awaiting
    <3>1. 1 \in 1..t
      BY <1>4
    <3>2. QED
      BY <1>4, <3>1 DEF Awaiting
  <2>3. \A m \in Nodes : m \in Awaiting' <=> \E i \in 1..(t - 1) : todo'[i] = m
    BY <1>5 DEF Awaiting
  <2>4. \A m \in Nodes : m \in Awaiting <=> \E i \in 1..t : todo[i] = m
    BY <1>4 DEF Awaiting
  <2>5. Awaiting \subseteq Nodes /\ Awaiting' \subseteq Nodes
    BY DEF Awaiting
  <2>6. \A m \in Nodes : m \in Awaiting' <=> m \in Awaiting /\ m # n
    BY <2>1, <2>3, <2>4, Zenon
  <2>7. QED
    BY <2>2, <2>5, <2>6
<1>8. /\ Wires' = Wires /\ WireIds' = WireIds /\ (\A u, v : Leads(u, v)' = Leads(u, v))
      /\ Placed' = Placed /\ (\A l, m : InLayer(l, m)' = InLayer(l, m)) /\ Later' = Later /\ Coming' = Coming
  BY <1>2, FlowKept, LayersKept DEF Coming
<1>9. layers # << >> /\ InLayer(Len(layers), n)
  <2>1. layers # << >>
    BY <1>1, <1>2 DEF InHand
  <2>2. QED
    BY <1>1, <1>7, <2>1 DEF InHand
<1>10. n \in Placed
  <2>1. PICK L \in Nat : L = Len(layers) /\ L # 0
    BY <1>1, <1>9, SeqsAre
  <2>2. L \in 1..L
    BY <2>1
  <2>3. QED
    BY <1>9, <2>1, <2>2 DEF Placed
<1>11. Done' = Done \cup {n} /\ n \notin Done
  BY <1>7, <1>8, <1>10 DEF Done
<1>12. \A v : Uncounted(v)' = Uncounted(v)
  <2> SUFFICES ASSUME NEW v, NEW i \in WireIds
               PROVE  (Wires[i].src \notin Done' \/ i \in work') <=> (Wires[i].src \notin Done \/ i \in work)
    BY <1>8 DEF Uncounted
  <2>1. i \in work' <=> Wires[i].src = n
    BY <1>2, <1>4 DEF Out
  <2>2. QED
    BY <1>2, <1>11, <2>1
<1>13. KahnType'
  <2>1. work' \subseteq WireIds
    BY <1>2 DEF Out
  <2>2. QED
    BY <1>1, <1>2, <1>5, <1>8, <2>1 DEF KahnType
<1>14. Once'
  <2>1. ASSUME NEW i \in 1..(t - 1), NEW j \in 1..(t - 1), todo'[i] = todo'[j] PROVE i = j
    <3>1. i + 1 \in 1..t /\ j + 1 \in 1..t /\ todo[i + 1] = todo[j + 1]
      BY <1>5, <2>1
    <3>2. i + 1 = j + 1
      BY <1>6, <3>1
    <3>3. QED
      BY <3>2
  <2>2. QED
    BY <1>1, <1>2, <1>5, <1>8, <2>1 DEF Once
<1>15. InHand'
  <2>1. \A m \in Awaiting' : InLayer(Len(layers), m)
    BY <1>1, <1>7, <1>9 DEF InHand
  <2>2. \A i \in work' : Wires[i].src = n
    BY <1>2, <1>4 DEF Out
  <2>3. PICK L : L = Len(layers) /\ L = Len(layers')
    BY <1>2
  <2>4. /\ \A m \in Awaiting' : InLayer(L, m)'
        /\ \A i \in work' : Wires'[i].src \in Done' /\ InLayer(L, Wires[i].src)'
    BY <1>8, <1>9, <1>11, <2>1, <2>2, <2>3
  <2>5. layers' # << >>
    BY <1>2, <1>9
  <2>6. QED
    BY <1>8, <2>3, <2>4, <2>5 DEF InHand, InLayer
<1>16. Counting'
  <2>1. visited = Cardinality(Done)
    BY <1>1 DEF Counting
  <2>2. Done \in SUBSET Nodes
    BY DEF Done, Placed
  <2>3. IsFiniteSet(Done)
    BY <2>2, Numbers, FS_Subset
  <2>4. Cardinality(Done \cup {n}) = Cardinality(Done) + 1
    BY <1>11, <2>3, FS_AddElement
  <2>5. \A v \in Nodes : Uncounted(v) = {} <=> v \in Placed \cup Coming
    BY <1>1 DEF Counting
  <2>6. \A v \in Nodes : indeg[v] = Cardinality(Uncounted(v))
    BY <1>1 DEF Counting
  <2>7. QED
    BY <1>2, <1>8, <1>11, <1>12, <2>1, <2>4, <2>5, <2>6 DEF Counting
<1>17. Soon'
  BY <1>1, <1>2, <1>8 DEF Soon
<1>18. QED
  BY <1>1, <1>8, <1>13, <1>14, <1>15, <1>16, <1>17 DEF Layering

(* A wire is counted: its target comes next when it was the last one.      *)
LEMMA CountDownKeeps ==
  ASSUME FlowType, Layering, CountDown
  PROVE  Layering'
<1>1. KahnType /\ Once /\ InHand /\ Counting /\ Later /\ Soon
  BY DEF Layering
<1>2. /\ work # {} /\ work' = work \ {Min(work)} /\ visited' = visited
      /\ UNCHANGED flowVars /\ layers' = layers /\ todo' = todo
  BY DEF CountDown
<1>3. PICK w \in WireIds : w = Min(work) /\ w \in work
  <2>1. work \in SUBSET Nat /\ work \subseteq WireIds
    BY <1>1, WireTypes DEF KahnType
  <2>2. QED
    BY <1>2, <2>1, MinIs
<1>4. PICK s \in Nodes, v \in Nodes : s = Wires[w].src /\ v = Wires[w].dst
  BY <1>1 DEF KahnType
<1>5. /\ indeg' = [indeg EXCEPT ![v] = indeg[v] - 1]
      /\ next' = IF indeg'[v] = 0 THEN Append(next, v) ELSE next
  BY <1>3, <1>4 DEF CountDown
<1>6. /\ Wires' = Wires /\ WireIds' = WireIds /\ (\A x, y : Leads(x, y)' = Leads(x, y))
      /\ Placed' = Placed /\ (\A l, m : InLayer(l, m)' = InLayer(l, m)) /\ Later' = Later
  BY <1>2, FlowKept, LayersKept
<1>7. Awaiting' = Awaiting /\ Done' = Done
  BY <1>2, <1>6 DEF Awaiting, Done
<1>8. s \in Done /\ InLayer(Len(layers), s) /\ layers # << >>
  BY <1>1, <1>2, <1>3, <1>4 DEF InHand
<1>9. w \in Uncounted(v) /\ Uncounted(v)' = Uncounted(v) \ {w}
  BY <1>2, <1>3, <1>4, <1>6, <1>7, <1>8 DEF Uncounted
<1>10. \A x : x # v => Uncounted(x)' = Uncounted(x)
  BY <1>2, <1>3, <1>4, <1>6, <1>7 DEF Uncounted
<1>11. PICK U : U = Uncounted(v)
  OBVIOUS
<1>12. /\ IsFiniteSet(U) /\ Cardinality(U) \in Nat /\ Cardinality(U \ {w}) \in Nat
       /\ Cardinality(U \ {w}) = Cardinality(U) - 1
       /\ Cardinality(U \ {w}) = 0 <=> U \ {w} = {}
  <2>1. IsFiniteSet(U) /\ w \in U
    BY <1>9, <1>11, UncountedFinite
  <2>2. IsFiniteSet(U \ {w}) /\ Cardinality(U \ {w}) = Cardinality(U) - 1
    BY <2>1, FS_RemoveElement
  <2>3. QED
    BY <2>1, <2>2, FS_CardinalityType, FS_EmptySet
<1>13. indeg \in [Ids -> Nat] /\ v \in Ids /\ indeg[v] = Cardinality(U)
  BY <1>1, <1>11, Numbers DEF KahnType, Counting
<1>14. indeg'[v] = Cardinality(U \ {w}) /\ indeg' \in [Ids -> Nat] /\ \A x \in Ids : x # v => indeg'[x] = indeg[x]
  BY <1>5, <1>12, <1>13
<1>15. v \notin Placed /\ v \notin Coming
  BY <1>1, <1>9 DEF Counting
<1>16. PICK c \in Nat : c = Len(next) /\ next \in Seq(Nodes)
  BY <1>1, SeqsAre DEF KahnType
<1>17. /\ next' \in Seq(Nodes)
       /\ Coming' = IF U \ {w} = {} THEN Coming \cup {v} ELSE Coming
       /\ \A i, j \in 1..Len(next') : next'[i] = next'[j] => i = j
  <2>1. \A i, j \in 1..c : next[i] = next[j] => i = j
    BY <1>1, <1>16 DEF Once
  <2>2. CASE U \ {w} = {}
    <3>1. next' = Append(next, v)
      BY <1>5, <1>12, <1>14, <2>2
    <3>2. next' \in Seq(Nodes) /\ Len(next') = c + 1 /\ next'[c + 1] = v /\ \A i \in 1..c : next'[i] = next[i]
      BY <1>16, <3>1, AppendProperties
    <3>3. (\A i \in 1..(c + 1) : i \in 1..c \/ i = c + 1) /\ c + 1 \in 1..(c + 1) /\ \A i \in 1..c : i \in 1..(c + 1)
      OBVIOUS
    <3>4. Coming' = Coming \cup {v}
      BY <1>16, <3>2, <3>3 DEF Coming
    <3>5. \A i \in 1..c : next[i] # v
      BY <1>15, <1>16 DEF Coming
    <3>6. QED
      BY <2>1, <2>2, <3>2, <3>3, <3>4, <3>5
  <2>3. CASE U \ {w} # {}
    <3>1. next' = next
      BY <1>5, <1>12, <1>14, <2>3
    <3>2. QED
      BY <1>16, <2>1, <2>3, <3>1 DEF Coming
  <2>4. QED
    BY <2>2, <2>3
<1>18. KahnType'
  <2>1. work' \subseteq WireIds
    BY <1>1, <1>2 DEF KahnType
  <2>2. QED
    BY <1>1, <1>2, <1>6, <1>14, <1>17, <2>1 DEF KahnType
<1>19. Once'
  <2>1. Coming' \cap Placed' = {}
    BY <1>1, <1>6, <1>15, <1>17 DEF Once
  <2>2. QED
    BY <1>1, <1>2, <1>17, <2>1 DEF Once
<1>20. InHand'
  <2>1. \A i \in work' : i \in work
    BY <1>2
  <2>2. QED
    BY <1>1, <1>2, <1>6, <1>7, <1>8, <2>1 DEF InHand
<1>21. Counting'
  <2>1. \A x \in Nodes : indeg'[x] = Cardinality(Uncounted(x)')
    BY <1>1, <1>9, <1>10, <1>11, <1>14, Numbers DEF Counting
  <2>2. \A x \in Nodes : Uncounted(x)' = {} <=> x \in Placed' \cup Coming'
    <3> SUFFICES ASSUME NEW x \in Nodes PROVE Uncounted(x)' = {} <=> x \in Placed' \cup Coming'
      OBVIOUS
    <3>1. Uncounted(x) = {} <=> x \in Placed \cup Coming
      BY <1>1 DEF Counting
    <3>2. CASE x = v
      BY <1>6, <1>9, <1>11, <1>15, <1>17, <3>2
    <3>3. CASE x # v
      BY <1>6, <1>10, <1>17, <3>1, <3>3
    <3>4. QED
      BY <3>2, <3>3
  <2>3. visited' = Cardinality(Done')
    BY <1>1, <1>2, <1>7 DEF Counting
  <2>4. QED
    BY <2>1, <2>2, <2>3 DEF Counting
<1>22. Soon'
  <2>1. Leads(s, v)
    BY <1>3, <1>4 DEF Leads
  <2>2. \A n \in Coming' : \E m \in Nodes : InLayer(Len(layers), m) /\ Leads(m, n)
    BY <1>1, <1>8, <1>17, <2>1 DEF Soon
  <2>3. PICK L : L = Len(layers) /\ L = Len(layers')
    BY <1>2
  <2>4. \A n \in Coming' : \E m \in Nodes : InLayer(L, m)' /\ Leads(m, n)'
    BY <1>6, <2>2, <2>3
  <2>5. \A l \in 2..L : \A n \in Nodes : InLayer(l, n)' => \E m \in Nodes : InLayer(l - 1, m)' /\ Leads(m, n)'
    BY <1>1, <1>6, <2>3 DEF Soon
  <2>6. QED
    BY <2>3, <2>4, <2>5 DEF Soon, InLayer
<1>23. QED
  BY <1>1, <1>6, <1>18, <1>19, <1>20, <1>21, <1>22 DEF Layering

(* The queue is empty: were a node left, its uncounted wires would come     *)
(* from nodes left too.                                                    *)
LEMMA AllPlaced ==
  ASSUME SearchInv, LayerInv, pc = "kahn", work = {}, todo = << >>, next = << >>
  PROVE  Placed = Nodes /\ visited = N
<1>1. Layering /\ Valid /\ FlowType /\ CycleIsReal
  BY DEF LayerInv, SearchInv
<1>2. KahnType /\ Counting
  BY <1>1 DEF Layering
<1>3. ~Cyclic
  BY <1>1 DEF CycleIsReal, Valid
<1>4. Coming = {} /\ Done = Placed
  <2>1. Len(next) = 0 /\ Len(todo) = 0
    BY EmptySeq
  <2>2. QED
    BY <2>1 DEF Coming, Awaiting, Done
<1>5. Placed \subseteq Nodes
  BY DEF Placed
<1>6. ASSUME Nodes \ Placed # {} PROVE FALSE
  <2>1. ASSUME NEW v \in Nodes \ Placed PROVE \E u \in Nodes \ Placed : Leads(u, v)
    <3>1. PICK i \in Uncounted(v) : TRUE
      BY <1>2, <1>4 DEF Counting
    <3>2. i \in WireIds /\ Wires[i].dst = v /\ Wires[i].src \notin Placed
      BY <1>4, <3>1 DEF Uncounted
    <3>3. QED
      BY <1>2, <3>2 DEF KahnType, Leads
  <2>2. QED
    BY <1>1, <1>3, <1>6, <2>1, FedIsCyclic
<1>7. Placed = Nodes
  BY <1>5, <1>6
<1>8. QED
  BY <1>2, <1>4, <1>7, Numbers DEF Counting

LEMMA LayeringKept ==
  ASSUME UNCHANGED flowVars, UNCHANGED kahnVars
  PROVE  (Layering => Layering') /\ Placed' = Placed /\ AmbiguousInterrupt' = AmbiguousInterrupt
<1>1. layers' = layers /\ indeg' = indeg /\ visited' = visited /\ todo' = todo /\ work' = work /\ next' = next
  BY DEF kahnVars
<1>2. /\ Wires' = Wires /\ WireIds' = WireIds /\ (\A u, v : Leads(u, v)' = Leads(u, v))
      /\ Placed' = Placed /\ (\A l, m : InLayer(l, m)' = InLayer(l, m)) /\ Later' = Later
  BY <1>1, FlowKept, LayersKept
<1>3. Coming' = Coming /\ Awaiting' = Awaiting /\ Done' = Done
  BY <1>1, <1>2 DEF Coming, Awaiting, Done
<1>4. \A v : Uncounted(v)' = Uncounted(v)
  BY <1>1, <1>2, <1>3 DEF Uncounted
<1>5. ASSUME Layering PROVE Layering'
  <2>1. KahnType /\ Once /\ InHand /\ Counting /\ Later /\ Soon
    BY <1>5 DEF Layering
  <2>2. KahnType' /\ Once'
    BY <1>1, <1>2, <1>3, <2>1 DEF KahnType, Once
  <2>3. InHand' /\ Counting'
    BY <1>1, <1>2, <1>3, <1>4, <2>1 DEF InHand, Counting
  <2>4. Soon'
    BY <1>1, <1>2, <1>3, <2>1 DEF Soon
  <2>5. QED
    BY <1>2, <2>1, <2>2, <2>3, <2>4 DEF Layering
<1>6. AmbiguousInterrupt' = AmbiguousInterrupt
  BY <1>1 DEF AmbiguousInterrupt
<1>7. QED
  BY <1>2, <1>5, <1>6

LEMMA LayerInvStep == ASSUME SearchInv, LayerInv, [Next]_vars PROVE LayerInv'
<1>1. FlowType
  BY DEF SearchInv
<1>2. CASE VisitRoot \/ VisitTarget \/ Leave \/ NoCycle
  <2>1. pc = "findCycle" /\ pc' \in {"findCycle", "validate"} /\ UNCHANGED kahnVars
    BY <1>2 DEF VisitRoot, VisitTarget, Leave, NoCycle
  <2>2. QED
    BY <2>1 DEF LayerInv, kahnVars
<1>3. CASE Validate
  <2>1. /\ pc = "validate" /\ UNCHANGED <<flowVars, dfsVars, kahnVars>>
        /\ (Valid /\ pc' = "index") \/ pc' = "rejected"
    BY <1>3 DEF Validate
  <2>2. Valid' = Valid
    BY <2>1 DEF Valid, EdgeIssue, MapIssue, flowVars, dfsVars
  <2>3. QED
    BY <2>1, <2>2 DEF LayerInv, kahnVars
<1>4. ASSUME UNCHANGED flowVars, cycle' = cycle PROVE Valid' = Valid
  BY <1>4 DEF Valid, EdgeIssue, MapIssue, flowVars
<1>5. CASE Index
  <2>1. Layering'
    BY <1>5, IndexKeeps
  <2>2. pc = "index" /\ pc' = "kahn" /\ UNCHANGED flowVars /\ cycle' = cycle
    BY <1>5 DEF Index, dfsVars
  <2>3. Valid'
    BY <1>4, <2>2 DEF LayerInv
  <2>4. QED
    BY <2>1, <2>2, <2>3 DEF LayerInv
<1>6. CASE BeginLayer
  <2>1. pc = "kahn" /\ work = {} /\ todo = << >> /\ UNCHANGED <<flowVars, dfsVars, indeg, visited, work>>
    BY <1>6 DEF BeginLayer
  <2>2. Layering /\ Valid'
    BY <1>4, <2>1 DEF LayerInv, dfsVars
  <2>3. CASE next # << >> /\ layers' = Append(layers, next) /\ todo' = next /\ next' = << >> /\ pc' = pc
    <3>1. Layering'
      BY <1>1, <2>1, <2>2, <2>3, NewLayerKeeps
    <3>2. QED
      BY <2>1, <2>2, <2>3, <3>1 DEF LayerInv
  <2>4. CASE next = << >> /\ pc' = "counted" /\ UNCHANGED <<layers, todo, next>>
    <3>1. Placed = Nodes /\ visited = N
      BY <2>1, <2>4, AllPlaced
    <3>2. UNCHANGED flowVars /\ UNCHANGED kahnVars
      BY <2>1, <2>4 DEF kahnVars
    <3>3. Layering' /\ Placed' = Placed
      BY <2>2, <3>2, LayeringKept
    <3>4. QED
      BY <2>1, <2>2, <2>4, <3>1, <3>3 DEF LayerInv
  <2>5. QED
    BY <1>6, <2>3, <2>4 DEF BeginLayer
<1>7. CASE VisitNode
  <2>1. pc = "kahn" /\ pc' = "kahn" /\ UNCHANGED flowVars /\ cycle' = cycle
    BY <1>7 DEF VisitNode, dfsVars
  <2>2. Layering' /\ Valid'
    BY <1>1, <1>4, <1>7, <2>1, VisitNodeKeeps DEF LayerInv
  <2>3. QED
    BY <2>1, <2>2 DEF LayerInv
<1>8. CASE CountDown
  <2>1. pc = "kahn" /\ pc' = "kahn" /\ UNCHANGED flowVars /\ cycle' = cycle
    BY <1>8 DEF CountDown, dfsVars
  <2>2. Layering' /\ Valid'
    BY <1>1, <1>4, <1>8, <2>1, CountDownKeeps DEF LayerInv
  <2>3. QED
    BY <2>1, <2>2 DEF LayerInv
<1>9. CASE Finish
  <2>1. pc = "counted" /\ UNCHANGED flowVars /\ UNCHANGED dfsVars /\ UNCHANGED kahnVars
    BY <1>9 DEF Finish
  <2>2. visited = N /\ Placed = Nodes /\ Layering /\ Valid
    BY <2>1 DEF LayerInv
  <2>3. pc' \in {"rejected", "compiled"} /\ (pc' = "compiled" => ~(hasStore /\ AmbiguousInterrupt))
    BY <1>9, <2>2 DEF Finish
  <2>4. Layering' /\ Placed' = Placed /\ AmbiguousInterrupt' = AmbiguousInterrupt
    BY <2>1, <2>2, LayeringKept
  <2>5. Valid' /\ visited' = visited /\ hasStore' = hasStore
    BY <1>4, <2>1, <2>2 DEF dfsVars, kahnVars, flowVars
  <2>6. QED
    BY <2>2, <2>3, <2>4, <2>5 DEF LayerInv
<1>10. CASE UNCHANGED vars
  <2>1. UNCHANGED flowVars /\ UNCHANGED kahnVars /\ cycle' = cycle /\ pc' = pc
    BY <1>10 DEF vars, dfsVars
  <2>2. Valid' = Valid /\ hasStore' = hasStore
    BY <1>4, <2>1 DEF flowVars
  <2>3. (Layering => Layering') /\ Placed' = Placed /\ AmbiguousInterrupt' = AmbiguousInterrupt
    BY <2>1, LayeringKept
  <2>4. layers' = layers /\ todo' = todo /\ work' = work /\ visited' = visited /\ next' = next
    BY <2>1 DEF kahnVars
  <2>5. QED
    BY <2>1, <2>2, <2>3, <2>4 DEF LayerInv
<1>11. QED
  BY <1>2, <1>3, <1>5, <1>6, <1>7, <1>8, <1>9, <1>10 DEF Next

(***************************************************************************)
(* What comes out.                                                         *)
(***************************************************************************)
LEMMA LayerAtIs ==
  ASSUME Layering, Placed = Nodes, NEW n \in Nodes
  PROVE  /\ LayerAt(n) \in 1..Len(layers) /\ InLayer(LayerAt(n), n)
         /\ \A l \in 1..Len(layers) : InLayer(l, n) => l = LayerAt(n)
<1>1. KahnType /\ Once
  BY DEF Layering
<1>2. \A l \in 1..Len(layers) : n \in ToSet(layers[l]) <=> InLayer(l, n)
  <2> SUFFICES ASSUME NEW l \in 1..Len(layers) PROVE n \in ToSet(layers[l]) <=> InLayer(l, n)
    OBVIOUS
  <2>1. PICK q \in Seq(Nodes) : q = layers[l]
    BY <1>1, SeqsAre
  <2>2. DOMAIN q = 1..Len(q)
    BY LenProperties
  <2>3. QED
    BY <2>1, <2>2 DEF ToSet, InLayer
<1>3. PICK l \in 1..Len(layers) : InLayer(l, n)
  BY DEF Placed
<1>4. \A k, m \in 1..Len(layers) : InLayer(k, n) /\ InLayer(m, n) => k = m
  BY <1>1 DEF Once, InLayer
<1>5. LayerAt(n) \in 1..Len(layers) /\ n \in ToSet(layers[LayerAt(n)])
  BY <1>2, <1>3, Zenon DEF LayerAt
<1>6. QED
  BY <1>2, <1>4, <1>5

LEMMA InvIsLayered == ASSUME SearchInv, LayerInv PROVE CompiledIsLayered
<1>1. pc # "residual"
  BY DEF LayerInv
<1>2. SUFFICES ASSUME pc = "compiled"
      PROVE  /\ \A n \in Nodes : \E l \in 1..Len(layers) : \E i \in 1..Len(layers[l]) :
                  \A k \in 1..Len(layers) : \A j \in 1..Len(layers[k]) :
                    layers[k][j] = n <=> k = l /\ j = i
             /\ \A w \in WireSet : LayerAt(w[1]) < LayerAt(w[2])
             /\ \A n \in Nodes : LayerAt(n) > 1 =>
                  \E m \in Nodes : <<m, n>> \in WireSet /\ LayerAt(m) + 1 = LayerAt(n)
             /\ hasStore => \A m, n \in Capable : LayerAt(m) = LayerAt(n) => m = n
  BY <1>1 DEF CompiledIsLayered
<1>3. Layering /\ Placed = Nodes /\ (hasStore => ~AmbiguousInterrupt) /\ FlowType
  BY <1>2 DEF LayerInv, SearchInv
<1>4. KahnType /\ Once /\ Later /\ Soon
  BY <1>3 DEF Layering
<1>5. PICK L \in Nat : L = Len(layers)
  BY <1>4, SeqsAre
<1>6. \A n \in Nodes : /\ LayerAt(n) \in 1..L /\ InLayer(LayerAt(n), n)
                       /\ \A l \in 1..L : InLayer(l, n) => l = LayerAt(n)
  BY <1>3, <1>5, LayerAtIs
<1>7. ASSUME NEW n \in Nodes
      PROVE  \E l \in 1..Len(layers) : \E i \in 1..Len(layers[l]) :
               \A k \in 1..Len(layers) : \A j \in 1..Len(layers[k]) :
                 layers[k][j] = n <=> k = l /\ j = i
  <2>1. PICK l \in 1..Len(layers) : \E i \in 1..Len(layers[l]) : layers[l][i] = n
    BY <1>5, <1>6 DEF InLayer
  <2>2. PICK i \in 1..Len(layers[l]) : layers[l][i] = n
    BY <2>1
  <2>3. \A k \in 1..Len(layers) : \A j \in 1..Len(layers[k]) : layers[k][j] = n <=> k = l /\ j = i
    BY <1>4, <2>2 DEF Once
  <2>4. QED
    BY <2>3
<1>8. ASSUME NEW w \in WireSet PROVE LayerAt(w[1]) < LayerAt(w[2])
  <2>1. PICK u, v : w = <<u, v>>
    BY DEF WireSet
  <2>2. PICK i \in WireIds : Wires[i].src = u /\ Wires[i].dst = v
    BY <1>3, <2>1, WiresLead DEF Leads
  <2>3. u \in Nodes /\ v \in Nodes
    BY <1>4, <2>2 DEF KahnType
  <2>4. PICK l \in 1..L : l = LayerAt(v) /\ InLayer(l, v)
    BY <1>6, <2>3
  <2>5. PICK k \in 1..(l - 1) : InLayer(k, u)
    BY <1>4, <1>5, <2>2, <2>4 DEF Later
  <2>6. k \in 1..L
    BY <2>4
  <2>7. k = LayerAt(u) /\ k < l
    BY <1>6, <2>3, <2>5, <2>6
  <2>8. QED
    BY <2>1, <2>4, <2>7
<1>9. ASSUME NEW n \in Nodes, LayerAt(n) > 1
      PROVE  \E m \in Nodes : <<m, n>> \in WireSet /\ LayerAt(m) + 1 = LayerAt(n)
  <2>1. PICK l \in 2..L : l = LayerAt(n) /\ InLayer(l, n)
    BY <1>6, <1>9
  <2>2. PICK m \in Nodes : InLayer(l - 1, m) /\ Leads(m, n)
    BY <1>4, <1>5, <2>1 DEF Soon
  <2>3. l - 1 \in 1..L
    OBVIOUS
  <2>4. LayerAt(m) = l - 1
    BY <1>6, <2>2, <2>3
  <2>5. <<m, n>> \in WireSet
    BY <1>3, <2>2, WiresLead
  <2>6. QED
    BY <2>1, <2>4, <2>5
<1>10. ASSUME hasStore, NEW m \in Capable, NEW n \in Capable, LayerAt(m) = LayerAt(n), m # n PROVE FALSE
  <2>1. m \in Nodes /\ n \in Nodes
    BY CompileAssumption
  <2>2. PICK l \in 1..L : InLayer(l, m) /\ InLayer(l, n)
    BY <1>6, <1>10, <2>1
  <2>3. PICK c \in Nat : c = Len(layers[l])
    BY <1>4, <1>5, SeqsAre
  <2>4. PICK i \in 1..c, j \in 1..c : layers[l][i] = m /\ layers[l][j] = n /\ i # j
    BY <1>10, <2>2, <2>3 DEF InLayer
  <2>5. PICK A : A = {x \in 1..c : layers[l][x] \in Capable}
    OBVIOUS
  <2>6. IsFiniteSet(A)
    <3>1. 1 \in Int /\ c \in Int
      OBVIOUS
    <3>2. IsFiniteSet(1..c)
      BY <3>1, FS_Interval, Zenon
    <3>3. A \in SUBSET (1..c)
      BY <2>5
    <3>4. QED
      BY <3>2, <3>3, FS_Subset, Zenon
  <2>7. PICK T : T = {i} /\ IsFiniteSet(T) /\ Cardinality(T) = 1 /\ j \notin T
    BY <2>4, FS_Singleton
  <2>8. Cardinality(T \cup {j}) = 2
    BY <2>7, FS_AddElement
  <2>9. T \cup {j} \in SUBSET A
    BY <1>10, <2>4, <2>5, <2>7
  <2>10. Cardinality(T \cup {j}) <= Cardinality(A)
    BY <2>6, <2>9, FS_Subset
  <2>11. Cardinality(A) \in Nat
    BY <2>6, FS_CardinalityType
  <2>12. Cardinality(A) > 1
    BY <2>8, <2>10, <2>11
  <2>13. AmbiguousInterrupt
    <3>1. Cardinality({x \in 1..Len(layers[l]) : layers[l][x] \in Capable}) > 1
      BY <2>3, <2>5, <2>12
    <3>2. QED
      BY <1>5, <3>1, Zenon DEF AmbiguousInterrupt
  <2>14. QED
    BY <1>3, <1>10, <2>13
<1>11. hasStore => \A m, n \in Capable : LayerAt(m) = LayerAt(n) => m = n
  BY <1>10
<1>12. \A n \in Nodes : LayerAt(n) > 1 =>
         \E m \in Nodes : <<m, n>> \in WireSet /\ LayerAt(m) + 1 = LayerAt(n)
  BY <1>9
<1>13. \A n \in Nodes : \E l \in 1..Len(layers) : \E i \in 1..Len(layers[l]) :
         \A k \in 1..Len(layers) : \A j \in 1..Len(layers[k]) :
           layers[k][j] = n <=> k = l /\ j = i
  BY <1>7, Zenon
<1>14. \A w \in WireSet : LayerAt(w[1]) < LayerAt(w[2])
  BY <1>8, Zenon
<1>15. QED
  BY <1>11, <1>12, <1>13, <1>14, Zenon

(* Compile, for a flow of any size: a compiled flow has every node in one   *)
(* layer and there once, every edge and node mapping leads to a later       *)
(* layer, no node is later than its feeders make it, and with a store no    *)
(* layer holds two nodes that may suspend; the residual-cycle error is      *)
(* never returned.  From the count of wires not yet counted down, and from  *)
(* CompileFindsCycles: nodes the queue never reaches would feed each other, *)
(* and the smallest set of nodes that do is a cycle findCycle reports.  It  *)
(* is what FlowGraph assumes of a compiled flow.                           *)
THEOREM CompileLayers == Spec => []CompiledIsLayered
<1>1. Init => SearchInv /\ LayerInv
  BY InitSearches
<1>2. SearchInv /\ LayerInv /\ [Next]_vars => SearchInv' /\ LayerInv'
  BY SearchInvStep, LayerInvStep
<1>3. SearchInv /\ LayerInv => CompiledIsLayered
  BY InvIsLayered
<1>4. QED
  BY <1>1, <1>2, <1>3, PTL DEF Spec
=============================================================================
