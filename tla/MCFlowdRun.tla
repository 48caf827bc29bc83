----------------------------- MODULE MCFlowdRun -----------------------------
(* Two siblings and a node behind them.                                    *)
EXTENDS FlowdRun
RunNodes == {"a", "b", "c"}
RunLayerOf == [n \in RunNodes |-> IF n = "c" THEN 2 ELSE 1]
=============================================================================
