----------------------------- MODULE FlowEngine -----------------------------
(***************************************************************************)
(* One run of the v2 engine and the legs that resume it: Engine.runCore,    *)
(* RunResumable and Resume (v2/flow/engine.go, v2/flow/resume.go), with the *)
(* graph State cell (v2/flow/state.go) and the checkpoint a suspension      *)
(* writes (v2/flow/checkpoint.go).                                         *)
(*                                                                         *)
(* pc is where the engine goroutine is.  In "fanout" the node tasks of the  *)
(* layer run concurrently; every other pc is the single engine goroutine.   *)
(* The loops over inputs, edges and mappings go one element per step, todo  *)
(* being the ids still to visit.                                           *)
(***************************************************************************)
EXTENDS FlowGraph

CONSTANTS
  Checkpointing,   \* runCore's checkpoint argument: RunResumable, or Run/RunStream
  HasStore,        \* WithCheckpointStore was given
  MaxConc,         \* WithMaxNodeConcurrency; 0 = unlimited
  HasReducer,      \* WithReducer was given
  Stagers,         \* nodes whose Run may call SetState
  Interrupters,    \* nodes whose Run may return an InterruptError
  Spontaneous,     \* nodes whose Run may return context.Canceled on a live context
  Encodable,       \* values encodePortValue has a codec for
  NoCheckpoint,    \* nothing stored under the run id
  HumanInputs,     \* the human inputs a Resume may be given; NoValue = key absent
  MaxResumes       \* bound: Resume calls in a behaviour

ASSUME OptionsAssumption ==
  /\ {Checkpointing, HasStore, HasReducer} \subseteq BOOLEAN
  /\ MaxConc \in Nat /\ MaxResumes \in Nat
  /\ Stagers \cup Interrupters \cup Spontaneous \subseteq Nodes
  /\ Encodable \subseteq Values
  /\ HumanInputs \subseteq [Ports -> PortValue]
(* Compile's static check (RV-2): at most one interrupt-capable node in a   *)
(* layer once a store is configured.                                       *)
ASSUME OneInterruptPerLayer ==
  HasStore => \A v \in Engines : \A m, n \in Capable[v] : LayerOf[m] = LayerOf[n] => m = n

VARIABLES
  pc,          \* where the engine goroutine is
  layer,       \* layerIdx, from 1
  activated,   \* activated[n], as a set
  portValues,  \* portValues[n][p]; NoValue = key absent
  edgeStates,  \* edgeStates[e]
  task,        \* outcome of node n's task in this lineage of legs
  emitted,     \* ports node n's Run (or its human input) produced; history only
  pending,     \* nodes that requested an interrupt in this layer
  deferNode,   \* interruptNodeID argument of the firing loops
  todo,        \* ids the loop at pc has still to visit
  inputs,      \* caller inputs
  ctxDone,     \* the caller's ctx is cancelled
  hasCell,     \* this leg was given State options
  staged,      \* cell.staged, as the set of writers
  committed,   \* cell.committed: the writer sets folded into it, in order
  engine,      \* the engine running this leg
  ranOn,       \* ranOn[l]: the engine layer l ran on, or will unless the run is
               \* resumed before; history only
  stored,      \* what the checkpoint store holds for the run id
  resumes      \* Resume calls so far

cellVars == <<hasCell, staged, committed>>
taskVars == <<task, emitted>>
vars == <<pc, layer, activated, portValues, edgeStates, taskVars, pending,
          deferNode, todo, inputs, ctxDone, cellVars, engine, ranOn, stored, resumes>>

EdgeFireState == {"EdgePending", "EdgeFired", "EdgeDeadFalse",
                  "EdgeDeadNoPort", "EdgeDeadSrcSkip", "EdgeDeferred"}
(* "suspended", "done" and "failed": the call returned; "crashed": the      *)
(* process died inside it.                                                 *)
Ended == {"suspended", "done", "failed", "crashed"}
TaskState == {"none", "queued", "running", "ok", "interrupt", "err", "canceled"}

(***************************************************************************)
(* Order of the loops.  Within a layer the sources go in layer order and,   *)
(* for one source, the wires in index order; the other loops go by index.   *)
(***************************************************************************)
First(k, S) == k \in S /\ \A j \in S : k <= j
(* Fault: wires fired in index order, whatever their source.               *)
FirstByIndex(k, S, Wire) == First(k, S)
FirstBySource(k, S, Wire) ==
  /\ k \in S
  /\ \A j \in S : \/ Pos[engine][Wire[k].src] < Pos[engine][Wire[j].src]
                  \/ Wire[k].src = Wire[j].src /\ k <= j

(***************************************************************************)
(* Writes to the run's maps.                                               *)
(***************************************************************************)
SetPort(n, p, v) == portValues' = [portValues EXCEPT ![n][p] = v]
Activate(n) == activated' = activated \cup {n}
Fail == pc' = "failed"

(***************************************************************************)
(* Fresh start: FlowStarted, entry nodes, flow inputs, input mappings.      *)
(***************************************************************************)
Init ==
  /\ pc = "idle" /\ layer = 1
  /\ activated = {}
  /\ portValues = [n \in Nodes |-> [p \in Ports |-> NoValue]]
  /\ edgeStates = [e \in EdgeIds |-> "EdgePending"]
  /\ task = [n \in Nodes |-> "none"]
  /\ emitted = [n \in Nodes |-> {}]
  /\ pending = {} /\ deferNode = NoNode /\ todo = {}
  /\ inputs = [i \in InputNames |-> NoValue]
  /\ ctxDone = FALSE
  /\ hasCell = FALSE /\ staged = {} /\ committed = << >>
  /\ engine = Compiled /\ ranOn = [l \in 1..NumLayers |-> Compiled]
  /\ stored = NoCheckpoint /\ resumes = 0

(* The State options of a call: none, a cell without a seed, a cell seeded  *)
(* with a value of the checkpoint's State type, or with one of another      *)
(* type.  A seed is the fold of no layer, <<{}>>; nil is << >>.             *)
StateOpts == {"none", "nil", "seed", "other"}
Seed(opts) == IF opts \in {"seed", "other"} THEN <<{}>> ELSE << >>

Start(given, opts) ==
  /\ pc = "idle"
  /\ pc' = "inputs" /\ todo' = InputIds
  /\ inputs' = given
  /\ hasCell' = (opts # "none") /\ committed' = Seed(opts)
  /\ activated' = EntryNodes
  /\ UNCHANGED <<layer, portValues, edgeStates, taskVars, pending, deferNode,
                 ctxDone, staged, engine, ranOn, stored, resumes>>

startFrame == <<layer, edgeStates, taskVars, pending, deferNode, inputs, ctxDone,
                cellVars, engine, ranOn, stored, resumes>>

BindInput(i) ==
  LET ref == Inputs[i] IN
  /\ pc = "inputs" /\ First(i, todo)
  /\ todo' = todo \ {i}
  /\ \/ /\ inputs[ref.name] = NoValue          \* missing required input
        /\ Fail /\ UNCHANGED <<activated, portValues>>
     \/ /\ inputs[ref.name] # NoValue
        /\ SetPort(ref.node, ref.port, inputs[ref.name])
        /\ Activate(ref.node) /\ UNCHANGED pc
  /\ UNCHANGED startFrame

InputsBound ==
  /\ pc = "inputs" /\ todo = {}
  /\ pc' = "imaps" /\ todo' = InputMaps
  /\ UNCHANGED <<activated, portValues, startFrame>>

(* What mapping m writes for the source value raw: selectPath, then         *)
(* setMappedPort on the target port's present value.  NoValue = an error.   *)
Mapped(m, raw) ==
  LET mp == Mappings[m]
      v == mp.sel[raw]
  IN IF v = NoValue THEN NoValue
     ELSE mp.put[portValues[mp.dst][mp.dport]][v]

(* The body shared by the mapping loops: write and activate, or fail.       *)
ApplyMapping(m, raw) ==
  LET v == Mapped(m, raw) IN
  \/ v = NoValue /\ Fail /\ UNCHANGED <<activated, portValues>>
  \/ /\ v # NoValue
     /\ SetPort(Mappings[m].dst, Mappings[m].dport, v)
     /\ Activate(Mappings[m].dst) /\ UNCHANGED pc

ApplyInputMapping(m) ==
  LET raw == inputs[Mappings[m].input] IN
  /\ pc = "imaps" /\ First(m, todo)
  /\ todo' = todo \ {m}
  /\ \/ raw = NoValue /\ Fail /\ UNCHANGED <<activated, portValues>>
     \/ raw # NoValue /\ ApplyMapping(m, raw)
  /\ UNCHANGED startFrame

InputMapsApplied ==
  /\ pc = "imaps" /\ todo = {}
  /\ pc' = "layer"
  /\ UNCHANGED <<activated, portValues, todo, startFrame>>

(***************************************************************************)
(* The layer loop: one task per active node, handed to fanout.Run.          *)
(***************************************************************************)
runFrame == <<activated, edgeStates, deferNode, todo, inputs, hasCell,
              engine, ranOn, stored, resumes>>

(* Fault: one layer too many.                                              *)
MoreLayersOffByOne == layer <= NumLayers + 1
MoreLayers == layer <= NumLayers

BeginLayer ==
  /\ pc = "layer" /\ MoreLayers
  /\ \/ ctxDone /\ Fail /\ UNCHANGED task
     \/ /\ ~ctxDone /\ pc' = "fanout"
        /\ task' = [n \in Nodes |-> IF n \in LayerNodes(layer) \cap activated
                                    THEN "queued" ELSE task[n]]
  /\ UNCHANGED <<layer, portValues, emitted, pending, ctxDone, staged, committed, runFrame>>

(***************************************************************************)
(* fanout.Run (a library of another repository, modelled from its use):     *)
(* at most MaxConc tasks run at once; the first task error cancels the      *)
(* shared context, after which a queued task may be given up with           *)
(* context.Canceled instead of being started; Run returns when no task is   *)
(* queued or running.                                                      *)
(***************************************************************************)
Running == {n \in Nodes : task[n] = "running"}
LayerTasks == {n \in LayerNodes(layer) : task[n] # "none"}
FanoutCanceled == ctxDone \/ \E n \in LayerTasks : task[n] \in {"err", "canceled"}
(* Fault: the last slot is never given out.                                *)
HasSpareSlot == MaxConc = 0 \/ Cardinality(Running) + 1 < MaxConc
HasSlot == MaxConc = 0 \/ Cardinality(Running) < MaxConc

nodeFrame == <<layer, ctxDone, committed, runFrame>>

StartNode(n) ==
  /\ pc = "fanout" /\ task[n] = "queued" /\ HasSlot
  /\ task' = [task EXCEPT ![n] = "running"]
  /\ UNCHANGED <<pc, portValues, emitted, pending, staged, nodeFrame>>

GiveUpNode(n) ==
  /\ pc = "fanout" /\ task[n] = "queued" /\ FanoutCanceled
  /\ task' = [task EXCEPT ![n] = "canceled"]
  /\ UNCHANGED <<pc, portValues, emitted, pending, staged, nodeFrame>>

(* SetState inside node n's Run: stages under n, inert without a cell.      *)
SetState(n) ==
  /\ pc = "fanout" /\ task[n] = "running" /\ n \in Stagers /\ hasCell
  /\ staged' = staged \cup {n}
  /\ UNCHANGED <<pc, portValues, taskVars, pending, nodeFrame>>

(* Run returned a map of outputs: every key is written to the node's ports. *)
NodeOk(n, out) ==
  /\ pc = "fanout" /\ task[n] = "running"
  /\ portValues' = [portValues EXCEPT ![n] =
        [p \in Ports |-> IF p \in OutPorts[engine][n] /\ out[p] # NoValue
                         THEN out[p] ELSE portValues[n][p]]]
  /\ emitted' = [emitted EXCEPT ![n] = {p \in OutPorts[engine][n] : out[p] # NoValue}]
  /\ task' = [task EXCEPT ![n] = "ok"]
  /\ UNCHANGED <<pc, pending, staged, nodeFrame>>

NodeErr(n) ==
  /\ pc = "fanout" /\ task[n] = "running"
  /\ task' = [task EXCEPT ![n] = "err"]
  /\ UNCHANGED <<pc, portValues, emitted, pending, staged, nodeFrame>>

(* Run returned an error that Is context.Canceled.                         *)
NodeCanceled(n) ==
  /\ pc = "fanout" /\ task[n] = "running"
  /\ FanoutCanceled \/ n \in Spontaneous
  /\ task' = [task EXCEPT ![n] = "canceled"]
  /\ UNCHANGED <<pc, portValues, emitted, pending, staged, nodeFrame>>

(* Run returned an InterruptError.  Only on the checkpoint path, and only   *)
(* for a node that declared the capability, is it a request; otherwise it   *)
(* is an error like any other (ErrUninstrumentedInterrupt).                *)
NodeInterrupt(n) ==
  /\ pc = "fanout" /\ task[n] = "running" /\ n \in Interrupters
  /\ IF Checkpointing /\ n \in Capable[engine]
     THEN /\ pending' = pending \cup {n}
          /\ task' = [task EXCEPT ![n] = "interrupt"]
     ELSE /\ task' = [task EXCEPT ![n] = "err"]
          /\ UNCHANGED pending
  /\ UNCHANGED <<pc, portValues, emitted, staged, nodeFrame>>

(* fanout.Run has returned; the scan of its results.  A Canceled result is  *)
(* passed over as long as the caller's ctx is alive.                       *)
Ignored(n) == task[n] = "canceled" /\ ~ctxDone
(* Fault: the results are not scanned.                                     *)
LayerNeverFails == FALSE
LayerFailed ==
  \E n \in LayerTasks : task[n] \in {"err", "canceled"} /\ ~Ignored(n)

AllTasksEnded == \A n \in LayerTasks : task[n] \notin {"queued", "running"}

Join ==
  /\ pc = "fanout" /\ AllTasksEnded
  /\ \/ (ctxDone \/ LayerFailed) /\ Fail         \* runErr, or r.Err
     \/ ~LayerFailed /\ pc' = "reduce"
  /\ UNCHANGED <<portValues, taskVars, pending, staged, nodeFrame>>

(***************************************************************************)
(* The layer barrier: reduce the State, then suspend or fire.               *)
(* The reducer gets the writes sorted by node id, so its result depends     *)
(* only on the previous State and on who wrote; the default reducer keeps   *)
(* the only write.                                                         *)
(***************************************************************************)
Reduced == IF HasReducer THEN Append(committed, staged) ELSE <<staged>>
ReduceFails == staged # {} /\ ~HasReducer /\ Cardinality(staged) > 1

(* Fault: staged is not cleared after the fold.                            *)
StagedKept == staged
StagedAfter == {}

Reduce ==
  /\ pc = "reduce"
  /\ \/ staged = {} /\ pc' = "splice" /\ UNCHANGED <<staged, committed>>
     \/ /\ staged # {} /\ ~ReduceFails
        /\ pc' = "splice" /\ committed' = Reduced /\ staged' = StagedAfter
     \/ ReduceFails /\ Fail /\ UNCHANGED <<staged, committed>>
  /\ UNCHANGED <<layer, portValues, taskVars, pending, ctxDone, runFrame>>

spliceFrame == <<layer, activated, portValues, edgeStates, taskVars, inputs,
                 ctxDone, cellVars, engine, ranOn, stored, resumes>>

(* The edges a firing loop may still settle: those never settled before.    *)
Unsettled(l) == {e \in EdgesFrom(l) : edgeStates[e] = "EdgePending"}

Splice ==
  /\ pc = "splice"
  /\ pending' = {}
  /\ \/ /\ pending # {} /\ (~HasStore \/ Cardinality(pending) > 1)
        /\ Fail /\ UNCHANGED <<deferNode, todo>>
     \/ /\ pending = {}
        /\ pc' = "edges" /\ deferNode' = NoNode /\ todo' = Unsettled(layer)
     \/ /\ HasStore /\ Cardinality(pending) = 1
        /\ pc' = "edges" /\ deferNode' \in pending /\ todo' = Unsettled(layer)
  /\ UNCHANGED spliceFrame

(* Fault: an edge fires without a value on its source port.                 *)
VerdictNoPortCheck(e) ==
  LET ed == Edges[e]
      v == portValues[ed.src][ed.sport]
  IN IF ed.src \notin activated THEN "EdgeDeadSrcSkip"
     ELSE IF v = NoValue THEN "EdgeFired"
     ELSE IF Conds[engine][e][v] = "true" THEN "EdgeFired"
     ELSE IF Conds[engine][e][v] = "false" THEN "EdgeDeadFalse"
     ELSE "error"

(* What becomes of edge e, given what its source did.                      *)
Verdict(e) ==
  LET ed == Edges[e]
      v == portValues[ed.src][ed.sport]
  IN IF ed.src \notin activated THEN "EdgeDeadSrcSkip"
     ELSE IF v = NoValue THEN "EdgeDeadNoPort"
     ELSE IF Conds[engine][e][v] = "true" THEN "EdgeFired"
     ELSE IF Conds[engine][e][v] = "false" THEN "EdgeDeadFalse"
     ELSE "error"

(* A condition is evaluated under the caller's ctx: an evaluator may give    *)
(* up once it is cancelled.                                                *)
EvalFails(e) ==
  \/ Verdict(e) = "error"
  \/ /\ ctxDone /\ Conds[engine][e] # Always
     /\ Verdict(e) \in {"EdgeFired", "EdgeDeadFalse"}

fireFrame == <<layer, taskVars, pending, deferNode, inputs, ctxDone, cellVars,
               engine, ranOn, stored, resumes>>

(* Fault: every settled edge activates its target.                         *)
SettleAndActivate(e, s) ==
  LET ed == Edges[e] IN
  /\ edgeStates' = [edgeStates EXCEPT ![e] = s]
  /\ Activate(ed.dst)
  /\ IF s = "EdgeFired"
     THEN SetPort(ed.dst, ed.dport, portValues[ed.src][ed.sport])
     ELSE UNCHANGED portValues

(* Settle edge e as s; a fired edge carries its value and activates.        *)
SettleEdge(e, s) ==
  LET ed == Edges[e] IN
  /\ edgeStates' = [edgeStates EXCEPT ![e] = s]
  /\ IF s = "EdgeFired"
     THEN SetPort(ed.dst, ed.dport, portValues[ed.src][ed.sport]) /\ Activate(ed.dst)
     ELSE UNCHANGED <<portValues, activated>>

(* Fault: the interrupt node's edges are settled like any other.           *)
NeverDeferred(e) == FALSE
IsDeferred(e) == Edges[e].src = deferNode

(* fireLayerEdges, one edge.                                               *)
FireEdge(e) ==
  /\ pc = "edges" /\ FirstBySource(e, todo, Edges)
  /\ todo' = todo \ {e}
  /\ \/ /\ IsDeferred(e)
        /\ SettleEdge(e, "EdgeDeferred") /\ UNCHANGED pc
     \/ /\ ~IsDeferred(e) /\ Verdict(e) # "error"
        /\ SettleEdge(e, Verdict(e)) /\ UNCHANGED pc
     \/ /\ ~IsDeferred(e) /\ EvalFails(e)
        /\ Fail /\ UNCHANGED <<edgeStates, portValues, activated>>
  /\ UNCHANGED fireFrame

EdgesFired ==
  /\ pc = "edges" /\ todo = {}
  /\ pc' = "maps" /\ todo' = MapsFrom(layer)
  /\ UNCHANGED <<activated, portValues, edgeStates, fireFrame>>

(* Whether fireLayerMappings has something to copy for mapping m.           *)
MapReady(m) ==
  LET mp == Mappings[m] IN
  /\ mp.src \in activated /\ mp.src # deferNode
  /\ portValues[mp.src][mp.sport] # NoValue

(* fireLayerMappings, one mapping.                                         *)
FireMapping(m) ==
  /\ pc = "maps" /\ FirstBySource(m, todo, Mappings)
  /\ todo' = todo \ {m}
  /\ IF MapReady(m)
     THEN ApplyMapping(m, portValues[Mappings[m].src][Mappings[m].sport])
     ELSE UNCHANGED <<pc, activated, portValues>>
  /\ UNCHANGED <<edgeStates, fireFrame>>

(* The layer is complete: on to the suspension, or to the next layer.       *)
LayerFired ==
  /\ pc = "maps" /\ todo = {}
  /\ IF deferNode # NoNode
     THEN pc' = "suspend" /\ UNCHANGED layer
     ELSE pc' = "layer" /\ layer' = layer + 1
  /\ UNCHANGED <<activated, portValues, edgeStates, taskVars, pending, deferNode,
                 todo, inputs, ctxDone, cellVars, engine, ranOn, stored, resumes>>

(***************************************************************************)
(* snapshotCheckpoint and SaveCheckpoint.  The checkpoint is encoded as     *)
(* tagged JSON; a value without a codec makes the whole run fail.  ranOn,   *)
(* task and emitted are carried along for the properties; the code does not *)
(* store them.                                                             *)
(***************************************************************************)
Snapshot ==
  [activated |-> activated, portValues |-> portValues,
   edgeStates |-> edgeStates, suspendLayer |-> layer,
   interruptNode |-> deferNode, inputs |-> inputs,
   state |-> IF hasCell THEN committed ELSE << >>,
   engine |-> engine, ranOn |-> ranOn, task |-> task, emitted |-> emitted]

CanEncode ==
  /\ \A n \in Nodes, p \in Ports : portValues[n][p] \in Encodable \cup {NoValue}
  /\ \A i \in InputNames : inputs[i] \in Encodable \cup {NoValue}

Suspend ==
  /\ pc = "suspend"
  /\ \/ CanEncode /\ pc' = "suspended" /\ stored' = Snapshot
     \/ Fail /\ UNCHANGED stored       \* no codec, or the store refused
  /\ UNCHANGED <<layer, activated, portValues, edgeStates, taskVars, pending,
                 deferNode, todo, inputs, ctxDone, cellVars, engine, ranOn, resumes>>

(* After the last layer: a skipped node's output is left out, an active     *)
(* node's output that was never emitted fails the run.                     *)
Finish ==
  /\ pc = "layer" /\ ~MoreLayers
  /\ pc' = IF \E o \in Outputs[engine] : /\ o[1] \in activated
                                         /\ portValues[o[1]][o[2]] = NoValue
           THEN "failed" ELSE "done"
  /\ UNCHANGED <<layer, activated, portValues, edgeStates, taskVars, pending,
                 deferNode, todo, inputs, ctxDone, cellVars, engine, ranOn, stored, resumes>>

(***************************************************************************)
(* Resume.                                                                 *)
(***************************************************************************)
(* Fault: the flow guard is gone.                                          *)
AnyFlow(cp, v) == TRUE
(* The hash guard.  Every checkpoint this code writes has a StructHash; the *)
(* strict comparison kept for version-1 checkpoints is left out.           *)
SameFlow(cp, v) ==
  FlowHash[cp.engine] = FlowHash[v] \/ StructHash[cp.engine] = StructHash[v]
SameState(cp, opts) == opts = "other" => cp.state = << >>
ValidHumanInput(cp, v, hi) ==
  \A p \in Ports : hi[p] # NoValue => p \in OutPorts[v][cp.interruptNode]

CanResume(hi, v, opts) ==
  /\ HasStore /\ stored # NoCheckpoint
  /\ SameFlow(stored, v) /\ SameState(stored, opts)
  /\ ValidHumanInput(stored, v, hi)

Merge(old, new) == [p \in Ports |-> IF new[p] # NoValue THEN new[p] ELSE old[p]]

(* Refused by a guard, or the checkpoint could not be loaded.              *)
ResumeRejected ==
  /\ pc \in Ended /\ Checkpointing /\ resumes < MaxResumes
  /\ resumes' = resumes + 1
  /\ UNCHANGED <<pc, layer, activated, portValues, edgeStates, taskVars, pending,
                 deferNode, todo, inputs, ctxDone, cellVars, engine, ranOn, stored>>

(* Fault: the suspended layer is entered again.                            *)
SuspendedLayer(cp) == cp.suspendLayer
(* Fault: a layer is jumped over.                                          *)
LayerAfterNext(cp) == cp.suspendLayer + 2
FirstLayer(cp) == cp.suspendLayer + 1

Resume(hi, v, opts) ==
  /\ pc \in Ended /\ Checkpointing /\ resumes < MaxResumes
  /\ CanResume(hi, v, opts)
  /\ resumes' = resumes + 1
  /\ pc' = "redges" /\ layer' = FirstLayer(stored)
  /\ activated' = stored.activated \cup {stored.interruptNode}
  /\ portValues' = [stored.portValues EXCEPT ![stored.interruptNode] = Merge(@, hi)]
  /\ edgeStates' = stored.edgeStates
  /\ todo' = {e \in EdgeIds : stored.edgeStates[e] = "EdgeDeferred"}
  /\ deferNode' = stored.interruptNode
  /\ hasCell' = (opts # "none") /\ staged' = {}
  /\ committed' = IF opts # "none" /\ stored.state # << >>
                  THEN stored.state ELSE Seed(opts)
  /\ inputs' = [i \in InputNames |-> NoValue]
  /\ task' = stored.task /\ pending' = {} /\ ctxDone' = FALSE
  /\ emitted' = [stored.emitted EXCEPT ![stored.interruptNode] =
                    {p \in Ports : hi[p] # NoValue}]
  /\ engine' = v /\ UNCHANGED stored
  /\ ranOn' = [l \in 1..NumLayers |-> IF l <= stored.suspendLayer THEN stored.ranOn[l] ELSE v]

(* The interrupt node's deferred out-edges, in index order.  A port the     *)
(* human input did not supply leaves its edge deferred.                    *)
FireDeferred(e) ==
  /\ pc = "redges" /\ First(e, todo)
  /\ todo' = todo \ {e}
  /\ \/ /\ Verdict(e) \in {"EdgeDeadNoPort", "EdgeDeadSrcSkip"}
        /\ UNCHANGED <<pc, edgeStates, portValues, activated>>
     \/ /\ Verdict(e) \in {"EdgeFired", "EdgeDeadFalse"}
        /\ SettleEdge(e, Verdict(e)) /\ UNCHANGED pc
     \/ /\ EvalFails(e)
        /\ Fail /\ UNCHANGED <<edgeStates, portValues, activated>>
  /\ UNCHANGED fireFrame

(* Fault: resume waits until no edge is deferred.                          *)
NoneDeferred == todo = {} /\ \A e \in EdgeIds : edgeStates[e] # "EdgeDeferred"
DeferredVisited == todo = {}

DeferredFired ==
  /\ pc = "redges" /\ DeferredVisited
  /\ pc' = "rmaps"
  /\ todo' = {m \in MapIds : Mappings[m].src = deferNode}
  /\ UNCHANGED <<activated, portValues, edgeStates, fireFrame>>

(* The interrupt node's mappings, in index order.                          *)
FireDeferredMapping(m) ==
  LET raw == portValues[Mappings[m].src][Mappings[m].sport] IN
  /\ pc = "rmaps" /\ First(m, todo)
  /\ todo' = todo \ {m}
  /\ IF raw # NoValue THEN ApplyMapping(m, raw)
     ELSE UNCHANGED <<pc, activated, portValues>>
  /\ UNCHANGED <<edgeStates, fireFrame>>

Reenter ==
  /\ pc = "rmaps" /\ todo = {}
  /\ pc' = "layer" /\ deferNode' = NoNode
  /\ UNCHANGED <<layer, activated, portValues, edgeStates, taskVars, pending, todo,
                 inputs, ctxDone, cellVars, engine, ranOn, stored, resumes>>

(***************************************************************************)
(* The environment: the caller cancels its ctx, or the process dies.        *)
(***************************************************************************)
Cancel ==
  /\ pc \notin Ended /\ ~ctxDone
  /\ ctxDone' = TRUE
  /\ UNCHANGED <<pc, layer, activated, portValues, edgeStates, taskVars, pending,
                 deferNode, todo, inputs, cellVars, engine, ranOn, stored, resumes>>

Crash ==
  /\ pc \notin Ended \cup {"idle"}
  /\ pc' = "crashed"
  /\ UNCHANGED <<layer, activated, portValues, edgeStates, taskVars, pending,
                 deferNode, todo, inputs, ctxDone, cellVars, engine, ranOn, stored, resumes>>

NodeStep(n) ==
  \/ StartNode(n) \/ GiveUpNode(n) \/ SetState(n)
  \/ \E out \in [OutPorts[engine][n] -> PortValue] : NodeOk(n, out)
  \/ NodeErr(n) \/ NodeCanceled(n) \/ NodeInterrupt(n)

EngineStep ==
  \/ \E i \in InputIds : BindInput(i)
  \/ InputsBound
  \/ \E m \in MapIds : ApplyInputMapping(m)
  \/ InputMapsApplied
  \/ BeginLayer \/ Join \/ Reduce \/ Splice
  \/ \E e \in EdgeIds : FireEdge(e)
  \/ EdgesFired
  \/ \E m \in MapIds : FireMapping(m)
  \/ LayerFired \/ Suspend \/ Finish
  \/ \E e \in EdgeIds : FireDeferred(e)
  \/ DeferredFired
  \/ \E m \in MapIds : FireDeferredMapping(m)
  \/ Reenter

Call ==
  \/ \E given \in [InputNames -> PortValue], opts \in {"none", "nil", "seed"} :
        Start(given, opts)
  \/ \E hi \in HumanInputs, v \in Engines, opts \in StateOpts :
        Resume(hi, v, opts)
  \/ ResumeRejected

Next ==
  \/ Call \/ EngineStep \/ Cancel \/ Crash
  \/ \E n \in Nodes : NodeStep(n)

Spec == Init /\ [][Next]_vars

(***************************************************************************)
(* Fairness: the engine goroutine is scheduled, and a node's Run returns.   *)
(***************************************************************************)
FairSpec ==
  /\ Spec
  /\ WF_vars(EngineStep)
  /\ \A n \in Nodes : WF_vars(NodeStep(n))

(***************************************************************************)
(* Properties.                                                             *)
(***************************************************************************)
PortMap == [Nodes -> [Ports -> PortValue]]
StateLog == Seq(SUBSET Nodes)
CheckpointRecord ==
  [activated : SUBSET Nodes, portValues : PortMap,
   edgeStates : [EdgeIds -> EdgeFireState], suspendLayer : 1..NumLayers,
   interruptNode : Nodes, inputs : [InputNames -> PortValue],
   state : StateLog, engine : Engines, ranOn : [1..NumLayers -> Engines],
   task : [Nodes -> TaskState], emitted : [Nodes -> SUBSET Ports]]

(* LoadCheckpoint tells "not found" from every checkpoint.                  *)
ASSUME NoCheckpointAssumption ==
  NoCheckpoint \notin CheckpointRecord /\ \A S \in SUBSET Nodes : NoCheckpoint # S

Phases == {"idle", "inputs", "imaps", "layer", "fanout", "reduce", "splice",
           "edges", "maps", "suspend", "redges", "rmaps"}

(* The state of a run is well typed: every port holds a value or nothing,   *)
(* layerIdx stays within len(layers)+1, and the store holds nothing or a    *)
(* complete Checkpoint.                                                    *)
TypeOK ==
  /\ pc \in Phases \cup Ended
  /\ layer \in 1..(NumLayers + 1)
  /\ activated \subseteq Nodes
  /\ portValues \in PortMap
  /\ edgeStates \in [EdgeIds -> EdgeFireState]
  /\ task \in [Nodes -> TaskState]
  /\ emitted \in [Nodes -> SUBSET Ports]
  /\ pending \subseteq Nodes
  /\ deferNode \in Nodes \cup {NoNode}
  /\ todo \subseteq EdgeIds \cup MapIds \cup InputIds
  /\ inputs \in [InputNames -> PortValue]
  /\ ctxDone \in BOOLEAN /\ hasCell \in BOOLEAN
  /\ staged \subseteq Nodes /\ committed \in StateLog
  /\ engine \in Engines /\ ranOn \in [1..NumLayers -> Engines]
  /\ stored \in CheckpointRecord \cup {NoCheckpoint}
  /\ resumes \in 0..MaxResumes

Returned == {"ok", "interrupt"}
Live == {"queued", "running"}

(* Layers are a barrier (docs/architecture.md: "a layer's nodes start only  *)
(* after all nodes of the previous layer have finished"): while a node's    *)
(* task is alive, every edge into it has been settled and the nodes that    *)
(* feed it, by edge or by mapping, are no longer running.                  *)
LayerBarrier ==
  \A n \in Nodes : task[n] \in Live =>
    /\ \A e \in EdgeIds : Edges[e].dst = n =>
         edgeStates[e] # "EdgePending" /\ task[Edges[e].src] \notin Live
    /\ \A m \in MapIds : Mappings[m].dst = n /\ Mappings[m].src # NoNode =>
         task[Mappings[m].src] \notin Live

(* Replaying is pointless: what the engine decided for an edge, on whatever *)
(* leg, is what its condition says of the source's ports as they are now,   *)
(* and a deferred edge is one whose source was never supplied, or the edge  *)
(* of a node still waiting for its human input.  Hence fireLayerEdges may   *)
(* skip every edge that is no longer pending after a resume.  And a fired   *)
(* edge carries something its source's Run, or the human input, produced    *)
(* ("Don't silently fire a value-less edge", v2/flow/engine.go), as long as *)
(* no node uses one port name for input and output: portValues keeps both.  *)
SettledEdgesStand ==
  \A e \in EdgeIds :
    /\ edgeStates[e] \notin {"EdgePending", "EdgeDeferred"} =>
         edgeStates[e] = Verdict(e)
    /\ edgeStates[e] = "EdgeFired" => Edges[e].sport \in emitted[Edges[e].src]
    /\ pc = "done" =>
         /\ edgeStates[e] # "EdgePending"
         /\ edgeStates[e] = "EdgeDeferred" => Verdict(e) = "EdgeDeadNoPort"

MapHasSource(m) ==
  /\ Mappings[m].src \in activated
  /\ portValues[Mappings[m].src][Mappings[m].sport] # NoValue

(* The activation rule of docs/architecture.md, with the mappings added: a  *)
(* node is an entry node, or is named by an input or an input mapping, or   *)
(* an edge into it fired, or a mapping into it had a value.                *)
HasCause(n) ==
  \/ n \in EntryNodes
  \/ \E i \in InputIds : Inputs[i].node = n
  \/ \E m \in InputMaps : Mappings[m].dst = n
  \/ \E e \in EdgeIds : Edges[e].dst = n /\ edgeStates[e] = "EdgeFired"
  \/ \E m \in MapIds \ InputMaps : Mappings[m].dst = n /\ MapHasSource(m)

(* Only a node with a cause is ever activated, and when the run completes,  *)
(* however many legs it took, every node with a cause has been.            *)
ActivationExact ==
  /\ \A n \in activated : HasCause(n)
  /\ pc = "done" => \A n \in Nodes : HasCause(n) => n \in activated

(* FlowDone means what it says: every activated node returned without an    *)
(* error (or was answered by a human), and no skipped node ran.  A failed   *)
(* or given-up sibling can therefore never be hidden by the Canceled        *)
(* pass-over in the scan of the results.                                   *)
DoneMeansAllRan ==
  pc = "done" => \A n \in Nodes : n \in activated <=> task[n] \in Returned

(* No node is executed twice in a lineage of legs: a task is only queued    *)
(* for a node that has not run since the run's start, or before the         *)
(* checkpoint this leg resumed from.                                       *)
NoRerun ==
  [][\A n \in Nodes : task'[n] = "queued" /\ task[n] # "queued"
        => task[n] = "none"]_vars

(* The checkpoint is a consistent cut: everything up to the suspended layer *)
(* is settled and has run, nothing after it has, the interrupt node is the  *)
(* only one waiting and exactly its out-edges are deferred (a deferred edge *)
(* of an earlier interrupt node is one nobody supplied a value for).       *)
CheckpointIsCut ==
  stored # NoCheckpoint =>
    /\ stored.interruptNode \in stored.activated
    /\ LayerOf[stored.interruptNode] = stored.suspendLayer
    /\ \A n \in Nodes :
         stored.task[n] # "none" <=>
            n \in stored.activated /\ LayerOf[n] <= stored.suspendLayer
    /\ \A n \in Nodes : stored.task[n] \in Returned \cup {"none"}
    /\ \A e \in EdgeIds :
         /\ stored.edgeStates[e] = "EdgePending"
              <=> LayerOf[Edges[e].src] > stored.suspendLayer
         /\ Edges[e].src = stored.interruptNode
              => stored.edgeStates[e] = "EdgeDeferred"
         /\ stored.edgeStates[e] = "EdgeDeferred" =>
              \/ Edges[e].src = stored.interruptNode
              \/ /\ stored.task[Edges[e].src] = "interrupt"
                 /\ stored.portValues[Edges[e].src][Edges[e].sport] = NoValue

(* The graph State is the fold of whole layers: every set of writers comes  *)
(* from one layer whose tasks all returned, earlier layers come first, and  *)
(* what a layer staged is never left for the next one.                     *)
StateIsFoldOfLayers ==
  /\ \A i \in 1..Len(committed) :
       \A m, n \in committed[i] :
         LayerOf[m] = LayerOf[n] /\ task[m] \in Returned
  /\ \A i, j \in 1..Len(committed) :
       \A m \in committed[i], n \in committed[j] : i < j => LayerOf[m] < LayerOf[n]
  /\ pc \notin {"fanout", "reduce"} \cup Ended => staged = {}

(* Firing order: layer after layer, and within a layer in the order that    *)
(* the engine it ran on goes through its nodes.                            *)
FiresBefore(on, e, f) ==
  LET l == LayerOf[Edges[e].src] IN
  \/ l < LayerOf[Edges[f].src]
  \/ /\ l = LayerOf[Edges[f].src]
     /\ \/ Pos[on[l]][Edges[e].src] < Pos[on[l]][Edges[f].src]
        \/ Edges[e].src = Edges[f].src /\ e < f
FiredInto(n, p) ==
  {e \in EdgeIds : edgeStates[e] = "EdgeFired" /\ Edges[e].dst = n /\ Edges[e].dport = p}

(* "The headline invariant: resume reproduces the non-interrupt baseline"   *)
(* (v2/flow/checkpoint_test.go).  A node that is about to run finds in each *)
(* port the value of the fired edge that an uninterrupted run would fire    *)
(* last, mappings aside; or else the answer of a node of the same layer     *)
(* that interrupted, for resume fires its edges after its siblings' even if *)
(* the node is listed before them.  An edit between the legs may reorder    *)
(* the nodes: the order within a layer is then that of the flow it ran on.  *)
PortsAsBaseline ==
  \A n \in Nodes, p \in Ports :
    task[n] \in Live /\ (\A m \in MapIds : <<Mappings[m].dst, Mappings[m].dport>> # <<n, p>>) =>
      \A e \in FiredInto(n, p) :
        (\A f \in FiredInto(n, p) : f = e \/ FiresBefore(ranOn, f, e))
          => \E f \in FiredInto(n, p) :
               /\ portValues[n][p] = portValues[Edges[f].src][Edges[f].sport]
               /\ \/ f = e
                  \/ /\ task[Edges[f].src] = "interrupt"
                     /\ LayerOf[Edges[f].src] = LayerOf[Edges[e].src]

(* Every call returns: once started, a leg ends done, failed or suspended   *)
(* (or dies with the process).                                             *)
LegEnds == (pc \in Phases \ {"idle"}) ~> (pc \in Ended)
=============================================================================
