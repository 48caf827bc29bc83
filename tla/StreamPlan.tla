----------------------------- MODULE StreamPlan -----------------------------
(***************************************************************************)
(* The typed graph of v2/flow/graph as Compile reads it: the registry of    *)
(* concatenators, the three stream planners and the executor they select,   *)
(* and what Invoke computes on the same graph, against which the streaming  *)
(* executors of StreamExec are compared.                                   *)
(*                                                                         *)
(* A graph is a record                                                     *)
(*   kind, inT, outT   per node                                            *)
(*   edges             sequence, in the order AddEdge and the constructors  *)
(*                     appended them, of [from, port, to, toPort]           *)
(*   entry, exit       nodes                                               *)
(*   I, O              types of the graph input and output                 *)
(* Ports are numbered: 0 is the only port of an ordinary node ("in", "out") *)
(* and k > 0 a route key, a target key or a source key, in sorted order.    *)
(***************************************************************************)
EXTENDS Naturals, Sequences, FiniteSets, FiniteSetsExt

CONSTANTS
  Implements,   \* pairs <<t, i>>: type t implements the interface i
  ElemT         \* element type of a ChatModel's stream (llm.StreamEvent)

Default == 0

NodesOf(g) == DOMAIN g.kind
EdgesOf(g) == {g.edges[i] : i \in DOMAIN g.edges}
OfKind(g, k) == {n \in NodesOf(g) : g.kind[n] = k}
KeysInto(g, n) == {e.toPort : e \in {x \in EdgesOf(g) : x.to = n}}

(* No edge leads back: it leads into a set of nodes that its source is not  *)
(* in and that no edge leaves (Compile runs flow.Compile, which rejects a   *)
(* cycle).                                                                 *)
Downwards(g, T) == \A e \in EdgesOf(g) : e.from \in T => e.to \in T
Acyclic(g) ==
  \A e \in EdgesOf(g) : \E T \in SUBSET NodesOf(g) : Downwards(g, T) /\ e.to \in T /\ e.from \notin T

---------------------------------------------------------------------------
(* Types and folders.  A registry maps the type a folder produces to the    *)
(* type of the elements it takes.                                          *)

assignable(t, u) == t = u \/ <<t, u>> \in Implements

(* The folder chosen for a target type, as a set of at most one: the exact  *)
(* registration, or the only assignable one.                               *)
lookupConcat(reg, t) ==
  IF t \in DOMAIN reg
    THEN {t}
    ELSE LET matches == {k \in DOMAIN reg : assignable(k, t)}
         IN  IF Cardinality(matches) = 1 THEN matches ELSE {}

Foldable(reg, t) == lookupConcat(reg, t) # {}

(* A folder asserts each element to its own element type. *)
Folds(reg, t, elem) == \E k \in lookupConcat(reg, t) : reg[k] = elem

(* Compile re-checks every edge, the entry and the exit. *)
TypeChecks(g) ==
  /\ \A e \in EdgesOf(g) :
       \/ g.kind[e.to] = "combine"      \* a port of its own type per source
       \/ assignable(g.outT[e.from], g.inT[e.to])
  /\ assignable(g.I, g.inT[g.entry])
  /\ assignable(g.outT[g.exit], g.O)

---------------------------------------------------------------------------
(* Adjacency as the planners keep it: one target per source port, so of     *)
(* several edges on one port the last appended stands.                     *)

PortsOf(g, n) == {e.port : e \in {x \in EdgesOf(g) : x.from = n}}

Target(g, n, p) ==
  g.edges[Max({i \in DOMAIN g.edges : g.edges[i].from = n /\ g.edges[i].port = p})].to

chainTargets(g, n) == {Target(g, n, p) : p \in PortsOf(g, n)}

MergeSources(g, n) ==
  IF g.kind[n] = "merge"
    THEN {e.from : e \in {x \in EdgesOf(g) : x.to = n /\ x.toPort # Default}}
    ELSE {}

SourceAt(g, m, k) == (CHOOSE e \in EdgesOf(g) : e.to = m /\ e.toPort = k).from

(* Nodes reached from n along the sets next(x). *)
Reached(g, n, next(_)) ==
  LET R[i \in 0..Cardinality(NodesOf(g))] ==
        IF i = 0 THEN {n} ELSE LET r == R[i-1] IN r \cup UNION {next(x) : x \in r}
  IN  R[Cardinality(NodesOf(g))]

subtreeReaches(g, n) ==
  g.exit \in Reached(g, n, LAMBDA x : chainTargets(g, x))

SharedPorts(g) ==
  {e \in EdgesOf(g) : \E f \in EdgesOf(g) \ {e} : f.from = e.from /\ f.port = e.port}

ExitIsSink(g) == PortsOf(g, g.exit) = {}

---------------------------------------------------------------------------
(* buildLinearPipeline *)

LinearShape(g) ==
  /\ \A e \in EdgesOf(g) : e.port = Default /\ e.toPort = Default
  /\ SharedPorts(g) = {}
  /\ \A e, f \in EdgesOf(g) : e.to = f.to => e = f
  /\ Reached(g, g.entry, LAMBDA x : chainTargets(g, x)) = NodesOf(g)
  /\ ExitIsSink(g)

(* The folders a plan needs, when the nodes of emits emit a stream; the     *)
(* merge folds its own sources.                                            *)
FoldersPresent(g, emits, reg) ==
  /\ \A e \in EdgesOf(g) :
       (e.from \in emits /\ ~(g.kind[e.to] = "merge" /\ e.toPort # Default))
         => Foldable(reg, g.inT[e.to])
  /\ g.exit \in emits => Foldable(reg, g.O)

(* buildStreamPlan.  isValueNode says yes to every kind that is neither a   *)
(* stream node nor a branch.                                               *)
isValueNode(k) == k \notin {"chat", "branch"}

Whitelisted(g) == \A n \in NodesOf(g) : g.kind[n] \in {"chat", "branch"} \/ isValueNode(g.kind[n])

DagShape(g) ==
  /\ Whitelisted(g)
  /\ OfKind(g, "branch") # {}
  /\ \A e \in EdgesOf(g) : e.toPort = Default
  /\ SharedPorts(g) = {}
  /\ Reached(g, g.entry, LAMBDA x : chainTargets(g, x)) = NodesOf(g)
  /\ ExitIsSink(g)

(* streamEmittingNodes.  pred is filled in map order: of several nodes that *)
(* lead to a Copy any one may be its predecessor.                          *)
PredChoices(g) ==
  LET fed == {n \in OfKind(g, "copy") : \E m \in NodesOf(g) : n \in chainTargets(g, m)}
  IN  {f \in [fed -> NodesOf(g)] : \A n \in fed : n \in chainTargets(g, f[n])}

streamEmittingNodes(g, pred) ==
  LET emits[n \in NodesOf(g)] ==
        \/ g.kind[n] = "chat"
        \/ n \in DOMAIN pred /\ emits[pred[n]]
  IN  {n \in NodesOf(g) : emits[n]}

(* buildStreamGraphPlan *)
GraphShape(g, pred) ==
  /\ Whitelisted(g)
  /\ (OfKind(g, "copy") # {}) # (OfKind(g, "merge") # {})
  /\ \A e \in EdgesOf(g) : e.toPort # Default => g.kind[e.to] = "merge"
  /\ Reached(g, g.entry, LAMBDA x : chainTargets(g, x) \cup MergeSources(g, x)) = NodesOf(g)
  /\ ExitIsSink(g)
  /\ \A e \in SharedPorts(g) : e.from \notin streamEmittingNodes(g, pred)

(* The executor Compile selects: "box" runs Invoke and boxes its result.    *)
Compile(g, pred, reg) ==
  LET chats == OfKind(g, "chat")
      planned(name, emits) == IF FoldersPresent(g, emits, reg) THEN name ELSE "error"
  IN  CASE ~TypeChecks(g) -> "error"
        [] TypeChecks(g) /\ LinearShape(g) -> planned("linear", chats)
        [] TypeChecks(g) /\ ~LinearShape(g) /\ DagShape(g) -> planned("dag", chats)
        [] TypeChecks(g) /\ ~LinearShape(g) /\ ~DagShape(g) /\ GraphShape(g, pred) ->
             planned("graph", streamEmittingNodes(g, pred))
        [] OTHER -> "box"

---------------------------------------------------------------------------
(* What the nodes compute.  A value is the set of paths it came along: a    *)
(* node that computes appends itself, one that forwards does not, a fan-in  *)
(* gathers.  The empty set is "no value".                                  *)

Input == {<<"in">>}

(* The folded value of a stream that ended early. *)
Cut == {<<"cut">>}
IsCut(v) == \E p \in v : p[1] = "cut"

Forwards(k) == k \in {"pass", "branch", "copy", "parallel"}

Apply(g, n, v) == IF Forwards(g.kind[n]) THEN v ELSE {Append(p, n) : p \in v}

Routes(g) ==
  {r \in [OfKind(g, "branch") -> UNION {PortsOf(g, n) : n \in NodesOf(g)}] :
     \A n \in DOMAIN r : r[n] \in PortsOf(g, n)}

(* Output of every node under the layered engine: a node runs when an edge  *)
(* into it fired, and of several edges into one port the last one stands.   *)
Outputs(g, route) ==
  LET out[n \in NodesOf(g)] ==
        LET fired == {i \in DOMAIN g.edges :
                        LET e == g.edges[i] IN
                          /\ e.to = n
                          /\ g.kind[e.from] = "branch" => route[e.from] = e.port
                          /\ out[e.from] # {}}
            port(k) == {i \in fired : g.edges[i].toPort = k}
            at(k)   == IF port(k) # {} THEN out[g.edges[Max(port(k))].from]
                       ELSE IF k = Default /\ n = g.entry THEN Input ELSE {}
        IN  Apply(g, n, UNION {at(k) : k \in KeysInto(g, n) \cup {Default}})
  IN  out

InvokeResult(g, route) == Outputs(g, route)[g.exit]

InvokeRuns(g, route) == {n \in NodesOf(g) : Outputs(g, route)[n] # {}}

=============================================================================
