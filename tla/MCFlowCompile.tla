--------------------------- MODULE MCFlowCompile ---------------------------
(* Three nodes; every edge between them on one port and one pair on two,    *)
(* edges to, from and at an unknown id, and mappings from nodes and inputs. *)
EXTENDS FlowCompile
SmallEdges ==
  [src : Nodes, dst : Nodes, port : {1}]
    \cup {[src |-> 1, dst |-> 2, port |-> 2], [src |-> 1, dst |-> 4, port |-> 1],
          [src |-> 4, dst |-> 1, port |-> 1], [src |-> 4, dst |-> 4, port |-> 1]}
SmallMaps ==
  {[src |-> s, dst |-> d, sound |-> TRUE] : s \in {NoNode, 1, 3}, d \in {1, 3}}
    \cup {[src |-> 2, dst |-> 3, sound |-> FALSE]}
=============================================================================
