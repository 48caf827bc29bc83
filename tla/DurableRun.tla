----------------------------- MODULE DurableRun -----------------------------
(***************************************************************************)
(* What RunResumable and Resume promise their caller, without layers,       *)
(* ports, edges or tasks: a run executes nodes, each at most once and never *)
(* after a node it feeds; it ends done, failed, suspended or with the       *)
(* process; and a resumed run goes on from what had been executed when it   *)
(* was suspended, whatever happened after that.                            *)
(***************************************************************************)
CONSTANTS
  Nodes,
  Feeds,      \* pairs <<m, n>>: m feeds n, by an edge or a mapping
  Required,   \* nodes that every completed run has executed
  Nothing     \* no checkpoint

VARIABLES
  status,     \* "idle", "running" or how the last leg ended
  executed,   \* nodes that have returned without an error
  saved       \* executed, as of the last suspension, or Nothing

vars == <<status, executed, saved>>

EndedStatus == {"suspended", "done", "failed", "crashed"}

Init == status = "idle" /\ executed = {} /\ saved = Nothing

Begin ==
  /\ status = "idle" /\ status' = "running"
  /\ UNCHANGED <<executed, saved>>

Execute(n) ==
  /\ status = "running" /\ n \notin executed
  /\ \A m \in executed : <<n, m>> \notin Feeds
  /\ executed' = executed \cup {n}
  /\ UNCHANGED <<status, saved>>

Suspend ==
  /\ status = "running" /\ executed # {}
  /\ status' = "suspended" /\ saved' = executed
  /\ UNCHANGED executed

Complete ==
  /\ status = "running" /\ Required \subseteq executed
  /\ status' = "done"
  /\ UNCHANGED <<executed, saved>>

Abort ==
  /\ status = "running" /\ status' \in {"failed", "crashed"}
  /\ UNCHANGED <<executed, saved>>

Resume ==
  /\ status \in EndedStatus /\ saved # Nothing
  /\ status' = "running" /\ executed' = saved
  /\ UNCHANGED saved

Next ==
  \/ Begin \/ (\E n \in Nodes : Execute(n)) \/ Suspend \/ Complete \/ Abort \/ Resume

Spec == Init /\ [][Next]_vars
=============================================================================
