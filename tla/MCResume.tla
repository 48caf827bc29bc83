------------------------------ MODULE MCResume ------------------------------
(***************************************************************************)
(* A human-in-the-loop flow on the RunResumable path.  The interrupt node h *)
(* feeds the siblings s and k, k only on one of its two answers; all three   *)
(* feed d.in, and k may interrupt a second time.                           *)
(***************************************************************************)
EXTENDS FlowEngineRefinement

Edge(s, sp, d, dp) == [src |-> s, sport |-> sp, dst |-> d, dport |-> dp]
OnValue(x, y) == [v \in {"v1", "v2"} |-> IF v = "v1" THEN x ELSE y]

HitlNodes == {"s", "h", "k", "d"}
HitlPorts == {"in", "out", "aux"}
HitlLayerOf == [n \in HitlNodes |-> CASE n = "h" -> 1 [] n \in {"s", "k"} -> 2 [] n = "d" -> 3]
HitlEdges ==
  <<Edge("h", "out", "k", "in"), Edge("s", "out", "d", "in"),
    Edge("k", "out", "d", "in"), Edge("h", "out", "s", "in"), Edge("h", "out", "d", "in")>>
HitlMappings ==
  <<[src |-> "s", sport |-> "out", input |-> NoNode, dst |-> "d", dport |-> "aux",
     sel |-> [v \in Values |-> v],
     put |-> [o \in PortValue |-> [v \in Values |-> v]]],
    [src |-> "h", sport |-> "out", input |-> NoNode, dst |-> "k", dport |-> "aux",
     sel |-> OnValue("v1", NoValue),
     put |-> [o \in PortValue |-> [v \in Values |-> v]]]>>
HitlInputs == << >>
(* Nothing, an answer on the declared port, one on another port.            *)
Answer(p, v) == [q \in HitlPorts |-> IF q = p THEN v ELSE NoValue]
HitlAnswers == {Answer("out", v) : v \in PortValue} \cup {Answer("aux", "v1")}

(***************************************************************************)
(* The engine the run starts on and three it may be resumed on: of the flow *)
(* with its nodes in another order and other outputs, which structuralHash  *)
(* does not see; of the same flow over another registry, in which the nodes *)
(* declare other ports and interrupt elsewhere, which the fast path on      *)
(* flowHash lets through; and of a flow with another condition.            *)
(***************************************************************************)
HitlEngines == {"run", "reordered", "registry", "rewired"}
HitlFlowHash == [v \in HitlEngines |->
  CASE v \in {"run", "registry"} -> 1 [] v = "reordered" -> 2 [] v = "rewired" -> 3]
HitlStructHash == [v \in HitlEngines |->
  CASE v \in {"run", "reordered"} -> 1 [] v = "registry" -> 2 [] v = "rewired" -> 3]
KFirst == [n \in HitlNodes |-> CASE n = "h" -> 1 [] n = "k" -> 2 [] n = "s" -> 3 [] n = "d" -> 4]
SFirst == [n \in HitlNodes |-> CASE n = "h" -> 1 [] n = "s" -> 2 [] n = "k" -> 3 [] n = "d" -> 4]
HitlPos == [v \in HitlEngines |-> IF v = "reordered" THEN SFirst ELSE KFirst]
HitlConds == [v \in HitlEngines |->
  <<IF v = "rewired" THEN OnValue("false", "true") ELSE OnValue("true", "false"),
    Always, OnValue("true", "error"), Always, Always>>]
HitlOutputs == [v \in HitlEngines |->
  IF v = "reordered" THEN {<<"s", "out">>} ELSE {<<"d", "out">>}]
HitlOutPorts == [v \in HitlEngines |-> [n \in HitlNodes |->
  IF v = "registry" /\ n = "h" THEN {"out", "aux"} ELSE {"out"}]]
HitlCapable == [v \in HitlEngines |-> IF v = "registry" THEN {"h", "s"} ELSE {"h", "k"}]
=============================================================================
