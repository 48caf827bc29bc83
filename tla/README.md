# A TLA+ verification project for llm-agent-flow

llm-agent-flow runs directed acyclic *flows* of nodes (LLM calls, tools, human
questions). This directory holds TLA+ models of its core, the TLC
configurations that check them on small instances, and theorems that TLAPS
proves for every instance. Paths below are relative to the repository root.

## 1. Inventory

| Component (source) | State it keeps | Operations | Hard behaviour |
|---|---|---|---|
| Compile and Validate (`v2/flow/validate.go`, `v2/flow/engine.go`, `flow/` twins) | in-degrees, layers | static checks, `findCycle`, Kahn layering, interrupt check | parallel wires, cycles through mappings |
| v2 engine (`v2/flow/engine.go`, `resume.go`, `mapping.go`) | `activated`, `portValues`, `edgeStates`, pending interrupts | `Run`, `RunResumable`, `Resume` | concurrent siblings, fail-fast, cancellation, suspension at a layer barrier, several resume legs |
| graph State (`v2/flow/state.go`) | staged and committed value | `SetState`, reduce at the barrier, checkpoint and seed | half layers, conflicting writers |
| checkpoints (`v2/flow/checkpoint.go`, `codec.go`, `structhash.go`, `v2/flow/store/sqlite`) | one checkpoint per run id | save, load, delete, hash guards | crash between save and use, edited flows |
| v0.1 engine stream (`flow/engine.go`) | event channel of 16 | `RunStream` | emit races cancellation; closing the channel |
| flowd run (`cmd/flowd/server/server.go` `runWithStore`) | final outcome, sync batch | `/run`, `/run/stream` | a client that leaves or stops reading, failing store writes, full channel |
| flowd resumable runs (`runResumableV2`, `handleResumeRun`) | row, checkpoint, events | run, suspend, resume | two resumes at once, late and repeated answers, crash or failed write between two writes |
| flowd engine cache (`lru.go`, `engineFor`, flow CRUD) | LRU list | get, set, delete | write between read and cache fill |
| run store (`flow/store/sqlite`) | `runs`, `run_events` | start, append, suspend, finish | status guard on late writes, sequence numbers |
| stream combinators (`v2/flow/graph/combinators.go`) | channels, close counters | `Copy`, `Merge`, `roundRobinMerge` | slow or gone consumers, wedged broadcaster, order |
| typed graph (`v2/flow/graph/runnable.go`, `typecheck.go`, node constructors) | nodes, edges, types; the folder registry | `Compile` and its three stream planners, `Invoke` | two readings of one graph: the engine's and the planners' |
| stream executors (`v2/flow/graph/stream*.go`, `copy.go`, `merge.go`) | live set of readers | linear, branch, fan-in, fan-out walks, `Close` | a goroutine per subtree, ownership of readers on error paths, everyone waiting on the broadcaster |
| shims, runners, tools, CLI, auth, debug views | none, or build-time only | conversion, I/O | none of their own |

Interaction: flowd compiles flows (cached) and calls an engine; the v0.1 engine
answers through a channel that the handler drains into the store and to the
client; the v2 engine writes its checkpoint itself and flowd then writes the
run's row, so row and checkpoint move in separate steps. `Runnable.Invoke` runs
the v2 engine on the lowered graph; `Runnable.Stream` runs an executor of its own
over the combinators' readers and must give the same result.

`PROJECT.json` lists the components with their status, the hazards at their
lines, and which property answers which hazard.

## 2. Modules

| Module | Models | Extends |
|---|---|---|
| `FlowGraph` | the compiled flow as constants, with what `Compile` guarantees as assumptions | |
| `FlowEngine` | `runCore`, `RunResumable`, `Resume`, the State cell, the checkpoint | `FlowGraph` |
| `FlowEngineProofs` | type correctness, safety, and that `FlowEngine` implements `DurableRun`, proved | `FlowEngineRefinement` |
| `FlowEngineFiring` | theorems on edges, activation, ports and State | `FlowEngineProofs` |
| `DurableRun` | abstract specification: what a run and its resumes promise the caller | |
| `FlowEngineRefinement` | the refinement mapping from `FlowEngine` to `DurableRun` | `FlowEngine` |
| `MCBranch`, `MCResume` | a router flow; a human-in-the-loop flow | `FlowEngine`, `FlowEngineRefinement` |
| `FlowCompile`, `MCFlowCompile` | `Validate`, `findCycle`, `Compile` | |
| `FlowdRun`, `MCFlowdRun` | `RunStream` and `runWithStore` | |
| `FlowdResume` | `runResumableV2`, `handleResumeRun`, the tables | |
| `FlowdCache` | the engine cache and the flow writers | |
| `StreamFan` | `Copy`, `Merge`, `roundRobinMerge` | |
| `FlowCompileProofs`, `FlowdRunProofs`, `FlowdResumeProofs`, `FlowdCacheProofs`, `StreamFanProofs`, `StreamExecProofs` | the theorems of these components | each its component |
| `StreamPlan` | the typed graph, the folder registry, `Compile`'s planners, what `Invoke` computes | |
| `StreamExec` | `Runnable.Stream`: executors, live set, consumer | `StreamPlan` |
| `MCStreamExec` | seventeen graphs to compile | `StreamExec` |

Definitions marked "Fault" or "Mutant" are mutated forms of the definition after them (a
dropped guard, an off-by-one, a missing drain). They are used by nothing; each
documents a bug the properties notice, and `PROJECT.json` lists the pairs.

### FlowEngine

`pc` is where the engine goroutine is. The loops over inputs, edges and mappings
go one element per step (`todo`), because an error in the middle leaves the maps
as they are. In `"fanout"` the node tasks of a layer run concurrently: queued,
running, then `ok`, `err`, `canceled` or `interrupt`. `fanout.Run` lives in
another repository and is modelled from its use: a cap on running tasks, and
giving up queued tasks after the first error or a cancellation.

Port values are abstract. What the engine does with a value is kept: a
condition's verdict, what `selectPath` takes from it, what `setMappedPort` makes
of the target port; each may fail. A State is the sequence of writer sets folded
into it, which is all a deterministic reducer can depend on. `Crash` drops
everything but the stored checkpoint.

`Resume` is called on any engine of `Engines`. What the guard at
`v2/flow/resume.go:69` keeps between legs is constant: nodes, edges and mappings in
their list order, and with them the layers. What it does not keep is a function
of the engine: `Pos` (the order in which Kahn's loop placed the nodes, which
follows `flow.Nodes`), `Outputs`, `OutPorts`, `Capable` and the compiled
conditions `Conds`. `HashAssumption` says, collisions aside, which of these each hash pins:
an equal `FlowHash` the order and the outputs but nothing the registry decides,
an equal `StructHash` the declared ports, and either one the conditions, over one
`ConditionEvaluator`. `ranOn` remembers the engine each layer ran on.

Simplifications: the strict flow-hash comparison for checkpoints of version 1 is
left out; all legs use one reducer, one store setting and one concurrency cap;
engines that the guard refuses differ in their hashes and conditions but share
nodes and edges, since nothing of them is ever used; nodes emit only ports they declare; `WithReducer`'s error
result is unreachable and left out. `Flow.Inputs` are read on the first leg only.
A second suspension stores no `OriginalInputs`, as in the code. `emitted`,
`ranOn` and, in part, `task` are history.

### DurableRun and FlowEngineRefinement

`DurableRun` has no layers, ports or tasks: nodes are executed one by one, each
once and never after a node it feeds, the run ends done, failed, suspended or
with the process, and `Resume` goes back to exactly what had been executed at the
last suspension. `Required` (here the entry nodes) must be executed in a
completed run. The mapping reads `executed` off the tasks that returned and
`saved` off the stored checkpoint; every other step of the engine stutters.

### FlowCompile

One action per step of the depth first search (visit a root, look at a target,
leave a node) and of Kahn's loop (begin a layer, visit a node, count one wire
down). Edges and mappings are numbered in the order of the flow; a call of
`visit`, and the node Kahn's loop is at, keep the set of wires they have yet to
look at and take the least, which is the order of the code's lists. Wires may name
ids that no node has: `findCycle` follows them, `Validate` then rejects the flow.
The reported cycle is the open part of the call stack, which is what the code's
parent links spell out. Checks on single strings, `registry.Build`, condition
compilation and hashing are a free choice to reject. Without mappings this is
the v0.1 code.

### FlowdRun

Engine goroutine, node tasks, bounded channel, handler, store and client. Which
nodes are active and which fail is a free choice: `FlowEngine` says how that is
decided. The client may close its connection, which cancels the request's
context, and it may stop reading its stream and read on (`stalled`): `Forward`, the
SSE write, waits for a connected client. Left out: the 500 answer when the writer cannot flush, the error result
of `RunStream` (it never returns one), the fallback for stores without
`AppendRunEvents`, the concurrency cap.

### FlowdResume

Requests are processes; every store access is a step. Leg *k* is what runs once
the *k*-th interrupt is answered. A client reads the question (`ReadQuestion`)
and posts its answer (`Post`) in steps of their own, so an answer may come late,
after somebody else's, or again when its response was lost; the request carries
the run id only. `asked` (the question a client last saw), `fired`, `lost` and
`calm` are history: `calm` holds until a request overlaps another one, the
process dies or a write fails.

### FlowdCache

The order list of the LRU with the version each engine was compiled from.
`Get`, `Set`, `Delete` hold the mutex and are one step each. `engineForV2` and
its own cache follow the same protocol.

### StreamFan

A source teed by `Copy` to a direct consumer and to one or two sources of a
merge (`Wirings` says which), the merge being ordered or not. Broadcaster,
pullers, consumers and drains are processes. A blocked `Next` holds the reader's
mutex, so a `Close` comes between two `Next`s wherever it is called from. `Close`
and the deferred calls at the end of a goroutine are one step each: what they
touch commutes with everything but the reads they enable. A `Next` after the end
returns `io.EOF` and changes nothing; it is a stuttering step.

### StreamPlan and StreamExec

A graph is a value: kinds, types, the edges in the order they were appended,
entry and exit. `Compile` gives the executor the code would choose, or `"box"`
(run `Invoke`, box its result) or `"error"`; where the code iterates over a Go map
(`pred` in `streamEmittingNodes`) every choice is taken. A value is the set of
paths along which it was computed, so two results are equal only if the same
nodes computed them in the same order; sets make a merge's gathering order
irrelevant, which `StreamFan` (`MergeOrder`) is about.

`StreamExec` has one walker per goroutine: 0 for the caller of `Stream`, *k* for
the target or source with key *k*. `walkChain` is one loop for all of them, and
`runLinearStream`, which takes the same steps, is modelled by it too. Taking a
stream out of the live set, finding its folder, folding it, running the node and
registering the new stream are separate steps, because `closeAll` may come
between any two. Broadcasters and readers of a Copy are as in `StreamFan`, with
the frames reduced to "frame", "eof", "err" and "cut" (a source that was closed).
Folding a ChatModel's own stream is one step: no other goroutine can see it
half-folded. A fold that meets a closed stream gives the empty or partial value,
`Cut`. Graphs are acyclic, because `Compile` lowers them and runs
`flow.Compile` before it plans anything. History: `ran`, `cutRuns`, and in a carrier
`fold`, whether the folder found takes the stream's elements; `invoke` holds what
`Invoke` does on the same graph and route.

Simplifications: keys are unique in a graph (so that they name goroutines and
readers) and every edge that leaves a Copy has one (`GraphsAssumption`; a plain
edge from a Copy, whose kind has no out port, is left out); an edge from a node
whose output type is `any` is left out; registering a folder
anew for a type that has one is left out; the merge's T is never the element
type of a ChatModel's stream, since `validateMergeSources` demands that sources
emit exactly T and a ChatModel emits `llm.Response`; `Merge` and
`roundRobinMerge` over the boxed readers, the drain and the combine function are
one step.

## 3. Runs

| Run | Shows |
|---|---|
| `Branch` | Four nodes, conditions, two mappings, one worker slot, no store: settlement of edges, exact activation, termination, under every interleaving, failure, cancellation and crash. |
| `Resume` | Two possible interrupts, three legs, four engines (the run's own; nodes and outputs rearranged, which the struct hash lets through; the same flow over another registry, which the flow hash lets through; other conditions, refused): the checkpoint is a consistent cut, settled edges keep their verdicts, nothing runs twice, State is the fold of whole layers, ports hold what an uninterrupted run puts there, and the engine implements `DurableRun`. |
| `Compile` | 19,040 flows of three nodes and an unknown id, with and without a store: cycles are found exactly and are real, the residual-cycle error is dead code, the layering is the least topological one, `Compile` returns. |
| `FlowdRun` | Client may leave or stop reading, a write may fail, channel of one slot: order of the stream, a trail that is honest and never behind the client, recorded outcome, and everything ends unless a connected client never reads again. |
| `CacheRace` | Two runs, two writers, cache of one: bounded, and stale only by the one race. |
| `Hitl` | Two clients, two interrupts, crashes, failing writes, overlapping, late and repeated answers: in turn each leg completes once and only a late answer reaches another question than its own; a finished run stays finished; a suspended one loses its checkpoint only with a `FinishRun`. |
| `StreamFan` | Nothing truncated, reordered or left running, whoever closes when. |
| `StreamExec` | Seventeen graphs (linear, branch, fan-out with nested Copies, fan-in, boxed, and shapes the planners misread), one failing node or stream, cancellation, a folder registered late: `Stream` gives `Invoke`'s result or an error, runs the same nodes once, every stream has one owner, `Stream` returns and after `Close` nothing is left. |
| `SwallowedCancel` | *violation.* A node that returns `context.Canceled` on a live context is passed over and the run ends done. |
| `FlowdWrongStatus` | *violation.* The terminal event is dropped after a disconnect; the failed run is recorded as done. |
| `HitlDoubleResume` | *violation.* Two resumes admitted before either finishes both run the post-interrupt nodes. |
| `ValueTee` | *violation.* A value copied into a leaf for which no single folder is found: its reader is lost, the broadcaster waits for it and `Stream` never returns. |

The findings in `PROJECT.json` quote the documentation each violation
contradicts. Also seen, and not kept as runs: an interrupt node that calls
`SetState` before it interrupts has its write committed and checkpointed,
contrary to the comment at `v2/flow/engine.go:656`; a node with one port name for
input and output lets an edge fire on the left-over input
(`v2/flow/engine.go:415`), so `SettledEdgesStand` is checked on flows without
such nodes; the channel of `RunStream` may close without a terminal event
(`flow/engine.go:193`), which `ClosedAfterTerminal` confines to cancellation. In
`FlowdResume`, a crash between `SaveCheckpoint` and `SuspendRun` leaves the row
at the previous interrupt while the checkpoint is at the next, and a failed
`FinishRun` followed by `DeleteCheckpoint` leaves a suspended row that cannot be
resumed; `StrandedOnlyByLostFinish` shows that this is the only way to get one.
A row left `running` by a crash is documented (`docs/operations.md`).

Three things the models show and no property forbids. The structure hash sorts
the nodes and leaves out `Flow.Inputs` and `Flow.Outputs`
(`v2/flow/structhash.go:77`), though the comment at `v2/flow/resume.go:74` says
"allow iff the STRUCTURE is unchanged (only Config differs)": an edit that
rearranges nodes or outputs passes, and later legs fire a layer's edges in
another order and return other outputs. `PortsAsBaseline` therefore takes each
layer in the order of the engine it ran on; in the order of the first flow, `Resume`
violates it. The resume token is the run id (`cmd/flowd/server/server.go:865`): a client
that repeats an answer because the response was lost answers the next interrupt
with it, in turn and without any failure; `OnlyLateAnswersMiss` says that it
takes an answered question. And flowd's write timeout is 0 by default
(`cmd/flowd/main.go:50`): a client that stays connected and stops reading blocks the
SSE write (`server.go:567`), and through the full channel the engine, for as long
as it likes; `HandlerReturns` excepts exactly that client.

Two more are written into a property as its only exception. `PortsAsBaseline`:
resume fires a deferred node's edges after all its siblings'
(`v2/flow/resume.go:166`), so where both feed one port a resumed run may keep
another value than an uninterrupted one, contrary to
`v2/flow/checkpoint_test.go:213`. `StaleOnlyByRace`: a run that had read the old
flow stores its engine after the eviction of a PUT (`cmd/flowd/server/server.go:175`).

For the stream graphs, `SameReading` names the graphs on which planners and engine
read a graph differently; on all others `StreamAgrees` and `RunsAsInvoke` hold:

* a Copy or Parallel next to a Branch is planned as a branch-DAG
  (`isValueNode`, `streamdag.go:256`, accepts every kind) and `Stream` fails or
  stops at it, where the comments say that it degrades (`streamdag.go:79-81`);
* of several edges on one value port the plan keeps the last (`streamgraph.go:180`);
* `fanInMerge` feeds a source the graph input (`streamgraph.go:592`), skipping
  nodes between entry and source;
* a Copy of a value boxes and folds it, with a folder that may take other
  elements or may not exist;
* Copy targets that meet again run the shared nodes once each.

Besides: a Copy nested in a leaf never runs its targets (`streamgraph.go:738`,
against the comment at 779); `runStreamGraph` cancels its context before a
lazily folded tail when no Copy was met (`streamgraph.go:521`), so that tail may
fail; a folder registered after `Compile` can make a lookup ambiguous and a
Runnable fail that worked before, against `runnable.go:36-37`; a leaf may run on
a value cut short once the context is cancelled, never before (`WholeInputs`).

### Bounds

* `Branch`, `Resume`: four nodes, three layers, two values, two resumes. This
  has every kind of wire, a merge of two sources into one port, a mapping on top
  of another value, an interrupt behind an interrupt, two siblings whose order an edit swaps, and a leg after an edit.
* `Compile`: three nodes, three edges, one mapping. A three-cycle, a triangle,
  parallel edges, a cycle through a mapping, an unknown id and a cycle that only
  the unknown id is on all fit.
* `FlowdRun`: three nodes in two layers; `ChanCap = 1` so that the channel is
  full most of the time; `MaxLost = 1` failing write.
* `CacheRace`: `Cap = 1` forces evictions, `MaxVersion = 3` allows a delete and
  a re-creation between a read and its cache fill.
* `Hitl`: `MaxInterrupts = 2`, the least with an answer that can meet another
  question than its own.
* `StreamFan`: the code's buffer of one, `MaxLen = 2`. With the terminal frame a
  source yields three frames and fills a puller's hand, its channel and the
  reader's buffer.

* `StreamExec`: `Frames = 2`, so that a frame can be in a reader's channel while
  the broadcaster holds the next (with one, a reader nobody reads is never
  noticed); `MaxKey = 4`, the keys of two Copies of two targets; `MaxFaults = 1`
  failure of a node or stream under a live context, any number once it is
  cancelled.

### Fairness

`FlowEngine!FairSpec`: the goroutine of a leg and every task are scheduled and a
node's `Run` returns; nothing is assumed of cancellation, crash or the caller.
`FlowdRun!FairSpec`: the same for engine and handler, strongly for `Forward`: a
client that reads again and again lets a pending write through. Nothing is
assumed of the client, who may also stop reading for ever while connected;
`HandlerReturns` excepts that case (`ClientHoldsOn`). `FlowCompile!FairSpec`: sequential code runs on. `StreamFan!FairSpec`:
goroutines are scheduled, a source's `Next` returns, and a consumer reads on or
closes, which the package demands ("A consumer that stops reading MUST Close").
`StreamExec!FairSpec`: goroutines and broadcasters are scheduled, nodes and
ChatModel streams return, and the consumer closes the reader ("Consumers MUST
Close the reader", `Runnable.Stream`); it need not read, and nobody need cancel.
A `select` with two ready cases may choose either, each time.

Runs with `CHECK_DEADLOCK FALSE` are of systems that end: a finished run, a
compiled flow, a released network, a closed stream.

## 4. Proofs

TLAPS checks the theorems below to the last leaf. They hold for every value of
the constants that satisfies the named assumptions of the module: every flow,
every set of options, any number of nodes, legs, clients, readers and frames,
every capacity and every bound. TLC evaluates the same assumptions on every run.

### The engine

| Theorem | States |
|---|---|
| `TypeCorrect` | `Spec => []TypeOK` |
| `LayersAreBarriers` | while a node is queued or running, every wire into it is settled and no feeder is alive |
| `NeverRerun` | no node is queued twice in a lineage of legs |
| `DoneIsDone` (†) | a run that ends done has executed exactly its activated nodes, all successfully |
| `CheckpointsAreCuts` (†) | every stored checkpoint is a consistent cut at its layer |
| `RunIsDurable` (†) | a run and its resumes implement `DurableRun` |
| `EdgesStand` (‡) | replaying the edge loop would decide every settled edge as it was decided |
| `ActivationIsExact` | a node is activated only for a cause, and a completed run has activated every node with one |
| `BaselinePorts` | a port that only edges write holds what an uninterrupted run puts there, up to the exception of section 3 |
| `StateIsFold` (†) | the State is the fold of whole layers, in order |

† assumes `Spontaneous = {}`: nodes return `context.Canceled` only once their
context is cancelled. The run `SwallowedCancel` shows that this is needed.
‡ assumes that no wire leads into a port that is the source of an edge: a node
with one port name for input and output lets an edge fire on a left-over input
(section 3), and then the statement is false. Both flows checked by TLC satisfy
it.

*The inductive invariants.* `TypeOK` alone is not inductive: a step needs to know
which control states go with which loop. `TypeInv` adds `Ctl`, which ties `todo`
and `deferNode` to `pc`. For safety, `SafetyInv` says of an active leg (`RunInv`)
where everything stands relative to the current layer: layers behind it are
settled and returned (`Behind`), layers ahead untouched (`Ahead`), the layer
itself as far as `pc` says (`AtFrontier`), interrupt requests belong to it
(`Requests`, `Deferring`), settled edges are those of the loop's past
(`EdgesSettled`, `DeferredEdges`), and each loop's `todo` is its rest (`Loops`).
`StoredInv` says the same of the checkpoint, so that `Resume` re-establishes
`RunInv` from it. It is needed because each theorem is about one layer at one
moment, while a resume jumps to a state assembled from the stored half.

`FlowEngineFiring` adds `FiringInv` in the same two halves (`FiringNow`,
`FiringStored`), stated as predicates on any activated set, port map and edge
states so that the run and the checkpoint share them: settled edges stand
(`Stand`), activations have causes (`Caused`), whatever the loops have visited
reached its target (`ReachInv`), a port without a wire holds only what its node
emitted (`Supplied`), and the last edge to write a port is the last in
`fireLayerEdges`' order or an interrupted node's (`LastWins`). The key fact is
that a step of layer *l* writes only to ports of later layers
(`TopologicalAssumption`), so it cannot disturb a verdict already given.
`FoldingInv` places each folded writer set before the layer the run is at.

*The refinement.* `Init` maps to `Durable!Init`. A node's return is `Execute`
(the barrier of `SafetyInv` gives "never after a node it feeds", and `NeverRerun`
gives "once"), `Suspend`, `Finish`, failures and `Crash` end the leg, `Resume`
restores the stored tasks, which `StoredInv` equates with what was saved; every
other step leaves the mapped variables alone (`TaskFrame`, `LegSteps`).
`EntryInv` supplies the entry nodes that `DurableRun` requires.

*Edits between legs.* A resumed leg may run on another engine. `CondsInv` says
that the engine, and the one the checkpoint was made on, has the conditions of
the first; the guard keeps it so (`ConditionsKept`, from `HashAssumption`), which is
what lets `Stand` survive a resume. `RunsOn` ties `ranOn` to the engine of the
current layer, so that `LastWins` can speak of one order per layer while the
orders of different legs differ (`OrderRestored`, `OrderStrict`).

`EnginesAssumption` (within an engine no two nodes have one place in the order)
and `NoCheckpointAssumption` (the "not found" answer is no checkpoint) state what
`Compile`'s layering and `LoadCheckpoint` give.

### Compile

| Theorem | States |
|---|---|
| `CompileFindsCycles` | a cycle `findCycle` returns is one, of edges and mappings, and it returns none exactly if no node leads into one |
| `CompileLayers` | every node of a compiled flow is in one layer and there once, after all its feeders and right after one of them; with a store no layer can suspend twice; the residual-cycle error is never returned |

For flows of any size, with any ids, and for wires in any order. `SearchInv`
describes the search: the open calls are a path of gray ids from a node (`Path`,
`Gray`), what a call has looked at is black or the next call (`LookedAt`), black
ids lead to black ids only (`BlackClosed`) and every set of them has one that
leads to none of them (`BlackAcyclic`), since an id turns black after all it leads
to. A gray target closes a cycle along the path; with no white node left, a cycle
reachable from a node would be a set of black ids without such an end.

`LayerInv` describes the layering by the wires not yet counted down
(`Uncounted`): their number is the in-degree, there are none exactly for the nodes
placed or about to be (`Counting`), so that the sources of a node being placed
are in earlier layers (`Later`), the last one counted in the layer before
(`Soon`). Nodes the queue never reaches would each have an uncounted wire from
another; the smallest such set (`FedIsCyclic`) is a cycle, and `SearchInv` has
excluded it. This is what `FlowGraph` assumes of a compiled flow
(`TopologicalAssumption`) and the engine's theorems use.

### flowd

| Theorem | States |
|---|---|
| `EventsInOrder`, `ClosesAfterTerminal` | the order of `RunStream`'s events; the channel closes after the terminal event or its loss to a cancellation |
| `RecordsOutcome`, `TrailHonest` | the row gets the outcome unless a write or the terminal event was lost; the stored trail never claims more than happened |
| `LegsFireOnceInTurn`, `AnswersMissOnlyLate`, `TrailAgrees` | requests that take turns complete a leg once, spend an answer on another question only after its own was answered, and leave row and trail in agreement |
| `NeverStranded`, `FinishedStays` | a suspended row loses its checkpoint only by a lost `FinishRun`; a terminal row is never written again |
| `CacheBounded`, `StaleOnlyAfterRace` | the cache keeps its capacity and one engine per flow; an entry is stale only by the one race |

`FlowdRunProofs`: the statements are about `Sent`, everything that ever went
through the channel, while a step sees one task or one event. `Explained` says of
each sent event what must have happened by then (its task's state, the engine's
`pc`), which turns a new event's place in the order into a fact about the
present. `Closing`, `Noted` and `Row` follow the outcome from the engine through
the channel to the row; `Drawn` and `InStep` relate log, client and channel, the
latter only while no write has failed.

`FlowdResumeProofs`: `Order` holds under every overlap, crash and failed write
and ties each request's next write to what the other tables say by then; `Turn`
holds while `calm` and describes the tables completely by where the one busy
request is (`Busy`) or that there is none (`Settled`).

`FlowdCacheProofs`: between a write and its eviction an entry may be old without
any race, so the property alone is not inductive. `Fresh` says of every entry
that it is the stored version, or that a writer has still to evict it, or that the
flow was written while a run held an older version; `Held` says the same of a
compiled engine on its way into the cache.

### The combinators

| Theorem | States |
|---|---|
| `TeeComplete` | a reader of a Copy returns a prefix of the source, and at an end all of it and the source's error |
| `SharedRate` | the broadcaster is at most a frame and a buffer ahead of an open reader |
| `MergeComplete` | a clean end only when nothing of any source is missing; an error is some source's |
| `MergeReproducible` | each source in order and once; the round robin in turn order with nothing passed over |

They hold for every buffer size, where the code and the runs have one.
`CopyInv`: a reader still being read has returned or buffers exactly the frames
the broadcaster has handed it (`Reading`), and the broadcaster stops early only
when every reader is closed (`Broadcast`). `MergeInv`: until the merge is
closed, every value a source has yielded is in its puller's hand, queued or
returned, and a queued value comes after all earlier ones of its source
(`Passing`); a puller that left has seen the end of its source or its error is
still queued (`Pulling`); and for some *r* the round robin has returned the first
*r* frames of every source, and one more of those before the cursor, as far as
they have them (`Wheel`). `WheelTurns` is the heart: passing over exhausted
sources, or going round, leaves such an *r*, so the value at the head of the
picked channel is the one whose turn it is (`TurnIsNext`).

### The stream executors

| Theorem | States |
|---|---|
| `StreamsHaveOneOwner` | an open stream is read by at most one goroutine or broadcaster, is then out of the live set, and is never dropped: registered, about to be closed, or held by a goroutine that goes on, unless no folder was found for it |
| `NodesGetWholeInputs` | until the root context is cancelled no node runs on a value that was cut short |

For any set of graphs that satisfies `GraphsAssumption` (on all of them, not only
on those of `SameReading`), any registry, and any number of keys, frames and
failures. `ExecInv` has five layers, each needed by the next:

* `Planned` and `Consumer`: a stream-graph plan has Copies or merges, never both;
  a walker *k* runs only once its reader was handed out, or under a merge; what
  the consumer does tells where walker 0 is. Without it a fan-in could collide
  with a broadcaster.
* `Names`: a stream's name says who opened it. A reader is carried only after
  `fanOutCopy` started its targets (`Handed`); a walker that opened the stream of a
  ChatModel is beyond that node (`Beyond`: in a set of nodes that no edge leaves
  and the ChatModel is not in), so a stream it opens is a new one. This is where
  acyclicity is used: on a cycle a walk would reopen a stream under its own name.
* `Exclusive`: no two walkers on their way carry one stream, no walker carries
  what a broadcaster reads, no two broadcasters read the same, and what is read
  is not in the live set.
* `Ownership`: a walker that has yet to take its stream finds it registered or
  being closed (`Waiting`), and so do the readers between tee and start; a
  broadcaster that is done has closed its source.
* `Alive` and `Whole`, while the context is live: whatever a walker, the fan-in or
  a broadcaster will still read is open, and no value, frame or buffer is cut.
  `OneOwner` alone would not give this: it allows a stream to be closed once it
  is in `closing`, and `Consumer` says that a stream-graph plan gets there only
  with its context cancelled.

Steps of one walker share one argument: `Moves` says how little such a step may
change, `Closes` which streams it may close, and `MoveInv` that the invariant
survives; each action is then an instance. `Elsewhere` does the same for steps
of broadcasters, consumer and closer. `Tee`, `Spawn` and `FanIn`, which change several
owners at once, are proved one conjunct at a time.

### Only model-checked

* Liveness (`LegEnds`, `CompileReturns`, `HandlerReturns`, `AllReleased`,
  `StreamReturns`): fairness is out of the prover's reach.
* `StreamExec`: `StreamAgrees` and `RunsAsInvoke` compare with what `Invoke`
  computes by recursion over the graph, and the runs of a node with what walks
  reach: both are induction over data, which the installed provers cannot do.

## 5. Not modelled

* Shims, runners and adapters convert and delegate; tools, auth, debug views, CLI
  and API snapshots are I/O or projections; the CEL language, `fanout` and
  `llm.ChatModel` are external.
* Of the typed builder: the constructors (a built graph is an input of
  `StreamPlan`), `lower`, `AddStatefulLambdaNode` and `AddInterruptibleLambdaNode`
  (the engine's State and interrupts are in `FlowEngine`), `pipedReader` (a
  template that nothing constructs).
* The sequence numbers of `run_events`: `AppendRunEvent` reads `MAX(seq)` and
  inserts in one statement, so appends of two overlapping resumes are ordered; the
  batch of `AppendRunEvents` belongs to a `/run` request, whose run nobody else
  appends to.
* The aliasing of nested maps in `mapping.go`: visible only to nodes that mutate
  their inputs.
* Hash functions, the SQL schema and migrations, listing and read endpoints.

## 6. Plan

Done: all modules of section 2, the refinement, the proofs of section 4. Every
invariant and action property of a passing run is proved except `StreamAgrees` and
`RunsAsInvoke`. Next, with a prover that can do induction over data:

1. `StreamExec`: that a walk computes what `Invoke` computes on the nodes it has
   passed, which gives `StreamAgrees` for every graph of `SameReading`.
