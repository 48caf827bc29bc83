------------------------ MODULE FlowEngineRefinement ------------------------
(***************************************************************************)
(* FlowEngine implements DurableRun: the map from the engine's state to the *)
(* state of the run that its caller sees.                                  *)
(***************************************************************************)
EXTENDS FlowEngine

(* Nodes whose Run returned, or whose interrupt request was taken.          *)
ReturnedIn(t) == {n \in Nodes : t[n] \in Returned}

WireFeeds ==
  {<<Edges[e].src, Edges[e].dst>> : e \in EdgeIds}
    \cup {<<Mappings[m].src, Mappings[m].dst>> : m \in MapIds \ InputMaps}

Durable == INSTANCE DurableRun WITH
  Feeds <- WireFeeds,
  Required <- EntryNodes,
  Nothing <- NoCheckpoint,
  status <- IF pc \in Phases \ {"idle"} THEN "running" ELSE pc,
  executed <- ReturnedIn(task),
  saved <- IF stored = NoCheckpoint THEN NoCheckpoint ELSE ReturnedIn(stored.task)

(* A run and the legs that resume it are one durable run: however nodes     *)
(* interleave, fail, are cancelled, interrupt or die with the process, no   *)
(* node is executed twice or after a node it feeds, a completed run has     *)
(* executed every entry node, and each Resume goes on from exactly the      *)
(* nodes executed at the last suspension (Engine.Resume: "resuming the      *)
(* layer loop from the layer after the suspend point").                    *)
ImplementsDurableRun == Durable!Spec
=============================================================================
