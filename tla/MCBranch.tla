------------------------------ MODULE MCBranch ------------------------------
(***************************************************************************)
(* A router flow run without a checkpoint store: a routes to b or c by condition,    *)
(* both merge into d.in, and two mappings assemble d.aux.                  *)
(***************************************************************************)
EXTENDS FlowEngine

Edge(s, sp, d, dp) == [src |-> s, sport |-> sp, dst |-> d, dport |-> dp]
OnValue(x, y) == [v \in {"v1", "v2"} |-> IF v = "v1" THEN x ELSE y]

BranchNodes == {"a", "b", "c", "d"}
BranchPorts == {"in", "out", "aux"}
BranchLayerOf == [n \in BranchNodes |-> CASE n = "a" -> 1 [] n \in {"b", "c"} -> 2 [] n = "d" -> 3]
BranchEdges ==
  <<Edge("c", "out", "d", "in"), Edge("a", "out", "b", "in"),
    Edge("a", "out", "c", "in"), Edge("b", "out", "d", "in")>>
BranchConds ==
  <<OnValue("error", "true"), OnValue("true", "false"),
    OnValue("true", "true"), OnValue("true", "true")>>
(* input x into d.aux, then c.aux on top of it: a second write through a    *)
(* path fails on a value (v2) that is not an object.                       *)
BranchMappings ==
  <<[src |-> NoNode, sport |-> "in", input |-> "x", dst |-> "d", dport |-> "aux",
     sel |-> [v \in Values |-> v], put |-> [o \in PortValue |-> [v \in Values |-> v]]],
    [src |-> "c", sport |-> "out", input |-> NoNode, dst |-> "d", dport |-> "aux",
     sel |-> OnValue("v2", "v2"),
     put |-> [o \in PortValue |-> [v \in Values |-> IF o = "v2" THEN NoValue ELSE v]]]>>
BranchInputs == <<[name |-> "x", node |-> "a", port |-> "in"]>>
BranchAnswers == {[p \in BranchPorts |-> NoValue]}

(* One engine, whose flow is not edited.                                   *)
Sole(x) == [v \in {"e1"} |-> x]
BranchPos ==
  Sole([n \in BranchNodes |-> CASE n = "a" -> 1 [] n = "b" -> 2 [] n = "c" -> 3 [] n = "d" -> 4])
BranchHash == Sole(1)
SoleConds == Sole(BranchConds)
BranchOutputs == Sole({<<"b", "out">>})
BranchOutPorts == Sole([n \in BranchNodes |-> {"out"}])
BranchCapable == Sole({"b", "c"})
NoneCapable == Sole({})
=============================================================================
